---- MODULE Spec2Model ----
(***************************************************************************)
(* Model of the experiment-execution pipeline of traefik-playground:       *)
(* the WorkerPool (internal/command), the isolated evaluator Command       *)
(* (internal/traefik) and the Controller / Traefik runner                  *)
(* (internal/experiment).                                                  *)
(*                                                                         *)
(* Every goroutine calling WorkerPool.Spawn (directly, or through          *)
(* Controller.Run -> Traefik.Run) is a caller p; pc[p] is its position in  *)
(* the code.  A mutex region is one atomic step, the select statement is   *)
(* one step, and every blocking call of os/exec is one step.               *)
(***************************************************************************)
EXTENDS Integers, Sequences, FiniteSets, TLC

\* ---------------------------------------------------------------- bounds
NumCallers == 3
NumContenders == 1
MaxSlots == 1
MaxWaitQueueDepth == 1

\* The goroutines calling Spawn in the pool specification.
Callers == 1..NumCallers
\* The pipeline specification follows one call of Controller.Run at a time
\* through every step of the evaluator Command.  The other users of the same
\* pool are the Contenders: they take the same steps of Spawn and hold their
\* permit for an arbitrary time, which is all the pool sees of any caller.
Runners == {0}
Contenders == 1..NumContenders
Ids == Callers \cup Runners \cup Contenders

\* ---------------------------------------------------------------- errors
\* An error is its chain of wrapped errors, outermost first; nil is <<>>.
Nil == << >>

\* errors.Is(e, target)
ErrIs(e, target) == \E i \in DOMAIN e : e[i] = target

\* fmt.Errorf("msg: %w", e)
Wrap(msg, e) == <<msg>> \o e

\* errors.As(e, &exitErr)
AsExitError(e) == \E i \in DOMAIN e : e[i] = "ExitError"

IsCancellation(e) == ErrIs(e, "DeadlineExceeded") \/ ErrIs(e, "Canceled")

ErrQueueFull == Wrap("too many commands in the queue", <<"DeadlineExceeded">>)

\* The errors a context reports once it is done.
CtxErrs == {"Canceled", "DeadlineExceeded"}

VARIABLES
    spawnSlots,      \* number of permits in the spawnSlots channel
    waitQueueDepth,  \* WorkerPool.waitQueueDepth
    pc,              \* position of each caller
    ctx,             \* the caller's context: "live" or its Err()
    err,             \* the local err of Spawn
    admitted,        \* this call passed the admission test
    executed,        \* this call called command.Exec
    spawnRet,        \* value returned by Spawn
    tctx,            \* context derived by WithTimeout: "none", "live" or its Err()
    stdin,           \* the child's stdin pipe: "none", "open", "closed"
    proc,            \* the isolated process: "none", "running", "exited", "killed"
    exitCode,        \* ProcessState.ExitCode()
    waited,          \* cmd.Wait returned for the process
    fault,           \* the I/O failure injected into this execution
    stdout,          \* Command.stdout
    stderr,          \* Command.stderr
    runRet,          \* error returned by Traefik.Run
    result           \* value returned by Controller.Run

poolVars == <<spawnSlots, waitQueueDepth>>
callVars == <<pc, ctx, err, admitted, executed, spawnRet>>
execVars == <<tctx, stdin, proc, exitCode, waited, fault, stdout, stderr>>
runVars == <<runRet, result>>
pipeVars == <<poolVars, callVars, execVars, runVars>>

\* The state of the request handlers, of the run bundle codec and of the
\* experiment store.  appVars is completed below, where each part is defined.
VARIABLES
    exp,             \* the experiment.Experiment given to marshalRunBundle
    res,             \* the experiment.Result given to marshalRunBundle
    secretKey,       \* App.secretKey
    bundle,          \* the encoded run bundle, as the client holds it
    signature,       \* the bundle signature, as the client holds it
    tampered,        \* what the client changed: "no", "bundle", "signature"
    unmarshalRet,    \* what unmarshalRunBundle returned
    step,            \* position of the bundle: "input", "marshaled", ...
    calls,           \* the library calls unmarshalRunBundle made, in order
    rows,            \* the table shared_experiments
    now,             \* NOW() of the database
    uuids,           \* how many ids shortuuid.New() has drawn
    hpc,             \* position of each request handler
    local,           \* the locals of Store.Save in each handler
    response,        \* the last HTTP response written
    issued,          \* the (bundle, signature) pairs rendered so far
    ran,             \* the (experiment, result) pairs of successful runs
    saveRets,        \* the calls of Store.Save that returned an id
    headerText,      \* the string given to ValidHeaderField and ValidHeaderValue
    validRet,        \* what the two validators returned
    validDone,       \* the validators have returned
    form,            \* the form values given to MakeExperiment
    made,            \* what MakeExperiment returned
    madeDone,        \* MakeExperiment has returned
    rawLogs,         \* the stderr text given to ParseRawLogs
    parsedLogs,      \* what ParseRawLogs returned
    logsDone,        \* ParseRawLogs has returned
    tpc,             \* position of the fake Traefik's caller: "new", "started", "failed"
    readyFuncs,      \* Traefik.readyFuncs
    handlers,        \* Traefik.handlers
    handlerMu,       \* Traefik.handlerMu is locked
    firstConfigurationReceived, \* the flag the listener of Start closes over
    lpc,             \* position of the configuration listener
    built,           \* the listener's local handlers
    ri,              \* the listener's position in its range over readyFuncs
    delivered,       \* the configurations the watcher gave to the listener
    invoked,         \* how many times each ready function was called
    readySend,       \* what Send returned to each ready function
    sendRet          \* what Send returned to the caller

bundleVars == <<exp, res, secretKey, bundle, signature, tampered, unmarshalRet, step, calls>>
shareVars == <<rows, now, uuids, hpc, local, response, issued, ran, saveRets>>
validVars == <<headerText, validRet, validDone>>
makeVars == <<form, made, madeDone>>
logVars == <<rawLogs, parsedLogs, logsDone>>
fakeVars == <<tpc, readyFuncs, handlers, handlerMu, firstConfigurationReceived, lpc,
              built, ri, delivered, invoked, readySend, sendRet>>
appVars == <<bundleVars, shareVars, validVars, makeVars, logVars, fakeVars>>
\* What the actions of each part leave alone.
notBundleVars == <<pipeVars, shareVars, validVars, makeVars, logVars, fakeVars>>
notShareVars == <<pipeVars, bundleVars, validVars, makeVars, logVars, fakeVars>>
notValidVars == <<pipeVars, bundleVars, shareVars, makeVars, logVars, fakeVars>>
notMakeVars == <<pipeVars, bundleVars, shareVars, validVars, logVars, fakeVars>>
notLogVars == <<pipeVars, bundleVars, shareVars, validVars, makeVars, fakeVars>>
notFakeVars == <<pipeVars, bundleVars, shareVars, validVars, makeVars, logVars>>
vars == <<pipeVars, appVars>>

ZeroResult == [response |-> "none", logs |-> << >>]
NoReturn == [res |-> ZeroResult, err |-> Nil]

\* NewWorkerPool(MaxSlots, MaxWaitQueueDepth): the channel is filled with
\* maxSlots permits and waitQueueDepth is zero.
NewWorkerPool ==
    /\ spawnSlots = MaxSlots
    /\ waitQueueDepth = 0

InitPipeline ==
    /\ NewWorkerPool
    /\ pc = [p \in Ids |-> "idle"]
    /\ ctx = [p \in Ids |-> "live"]
    /\ err = [p \in Ids |-> Nil]
    /\ admitted = [p \in Ids |-> FALSE]
    /\ executed = [p \in Ids |-> FALSE]
    /\ spawnRet = [p \in Ids |-> Nil]
    /\ tctx = [p \in Ids |-> "none"]
    /\ stdin = [p \in Ids |-> "none"]
    /\ proc = [p \in Ids |-> "none"]
    /\ exitCode = [p \in Ids |-> 0]
    /\ waited = [p \in Ids |-> FALSE]
    /\ fault = [p \in Ids |-> "none"]
    /\ stdout = [p \in Ids |-> "empty"]
    /\ stderr = [p \in Ids |-> << >>]
    /\ runRet = [p \in Ids |-> Nil]
    /\ result = [p \in Ids |-> NoReturn]

\* The zero values of Experiment and Result (named return values of
\* unmarshalRunBundle, app.go 393).
ZeroExperiment ==
    [dynamicConfig |-> << >>,
     request |-> [method |-> "", url |-> << >>, headers |-> << >>, body |-> << >>]]
ZeroRunResult ==
    [response |-> [proto |-> "", statusCode |-> 0, body |-> << >>], logs |-> << >>]
NoSignature == [key |-> "", data |-> << >>, changed |-> << >>]
NoUnmarshal == [exp |-> ZeroExperiment, res |-> ZeroRunResult, err |-> Nil]
ServerKey == "k1"

\* No run bundle is being handled.
InitBundleIdle ==
    /\ exp = ZeroExperiment
    /\ res = ZeroRunResult
    /\ secretKey = ServerKey
    /\ bundle = << >>
    /\ signature = NoSignature
    /\ tampered = "no"
    /\ unmarshalRet = NoUnmarshal
    /\ step = "idle"
    /\ calls = << >>

\* Two clients, each with its own address, have a /share request served at
\* the same time.
Clients == {1, 2}
\* No request is being served, nothing was rendered, the table is empty.
NoLocal == [exp |-> ZeroExperiment, res |-> ZeroRunResult, publicID |-> 0]
NoResponse == [handler |-> "none", status |-> 0, client |-> 0, id |-> 0,
               exp |-> ZeroExperiment, res |-> ZeroRunResult]
Respond(h, status) == [NoResponse EXCEPT !.handler = h, !.status = status]

InitShareIdle ==
    /\ rows = {}
    /\ now = 0
    /\ uuids = 0
    /\ hpc = [c \in Clients |-> "idle"]
    /\ local = [c \in Clients |-> NoLocal]
    /\ response = NoResponse
    /\ issued = {}
    /\ ran = {}
    /\ saveRets = {}

\* No string is being validated.
InitValidIdle ==
    /\ headerText = << >>
    /\ validRet = [field |-> FALSE, value |-> FALSE]
    /\ validDone = FALSE

\* No form is being validated.
InitMakeIdle ==
    /\ form = [dynamicConfig |-> << >>, method |-> "", url |-> << >>,
               headers |-> << >>, body |-> << >>]
    /\ made = [exp |-> ZeroExperiment, err |-> Nil]
    /\ madeDone = FALSE

\* No stderr text is being parsed.
InitLogsIdle ==
    /\ rawLogs = << >>
    /\ parsedLogs = << >>
    /\ logsDone = FALSE

\* ------------------------------------------------- the fake Traefik
\* The ready functions a caller may register, and the dynamic
\* configurations the watcher may give to the listener.
MaxReadyFuncs == 2
MaxConfigurations == 3
ReadyFuncs == 1 .. MaxReadyFuncs
Configurations == {"first.yml", "second.yml"}
httpEntrypoint == "web"
\* The nil map of a Traefik that received no configuration.
NoHandlers == [e \in {} |-> Nil]
NoSend == [res |-> Nil, err |-> Nil]

\* NewTraefik: no ready function, no handler, the mutex free.
InitFake ==
    /\ tpc = "new"
    /\ readyFuncs = << >>
    /\ handlers = NoHandlers
    /\ handlerMu = FALSE
    /\ firstConfigurationReceived = FALSE
    /\ lpc = "idle"
    /\ built = NoHandlers
    /\ ri = 0
    /\ delivered = << >>
    /\ invoked = [f \in ReadyFuncs |-> 0]
    /\ readySend = [f \in ReadyFuncs |-> NoSend]
    /\ sendRet = NoSend

Init ==
    /\ InitPipeline
    /\ InitFake
    /\ InitBundleIdle
    /\ InitShareIdle
    /\ InitValidIdle
    /\ InitMakeIdle
    /\ InitLogsIdle

\* ------------------------------------------------------------- contexts
\* The caller's context is cancelled or reaches its deadline.  A context
\* derived from it by WithTimeout is done at the same moment, with the
\* same error, unless its own deadline fired first.
CtxFire(p, e) ==
    /\ pc[p] \notin {"returned", "done"}
    /\ ctx[p] = "live"
    /\ ctx' = [ctx EXCEPT ![p] = e]
    /\ tctx' = [tctx EXCEPT ![p] = IF @ = "live" THEN e ELSE @]
    /\ UNCHANGED <<poolVars, pc, err, admitted, executed, spawnRet>>
    /\ UNCHANGED <<stdin, proc, exitCode, waited, fault, stdout, stderr>>
    /\ UNCHANGED runVars
    /\ UNCHANGED appVars

\* ------------------------------------------------------ WorkerPool.Spawn
\* Lines 38-45: the admission test and the increment, under the mutex.
AdmitCountsRejected(p) ==
    /\ pc[p] = "idle"
    /\ waitQueueDepth' = waitQueueDepth + 1
    /\ IF waitQueueDepth >= MaxWaitQueueDepth
         THEN /\ pc' = [pc EXCEPT ![p] = "returned"]
              /\ spawnRet' = [spawnRet EXCEPT ![p] = ErrQueueFull]
              /\ UNCHANGED admitted
         ELSE /\ pc' = [pc EXCEPT ![p] = "select"]
              /\ admitted' = [admitted EXCEPT ![p] = TRUE]
              /\ UNCHANGED spawnRet
    /\ UNCHANGED <<spawnSlots, ctx, err, executed, execVars, runVars>>
    /\ UNCHANGED appVars

AdmitOffByOne(p) ==
    /\ pc[p] = "idle"
    /\ IF waitQueueDepth > MaxWaitQueueDepth
         THEN /\ pc' = [pc EXCEPT ![p] = "returned"]
              /\ spawnRet' = [spawnRet EXCEPT ![p] = ErrQueueFull]
              /\ UNCHANGED <<waitQueueDepth, admitted>>
         ELSE /\ waitQueueDepth' = waitQueueDepth + 1
              /\ pc' = [pc EXCEPT ![p] = "select"]
              /\ admitted' = [admitted EXCEPT ![p] = TRUE]
              /\ UNCHANGED spawnRet
    /\ UNCHANGED <<spawnSlots, ctx, err, executed, execVars, runVars>>
    /\ UNCHANGED appVars

Admit(p) ==
    /\ pc[p] = "idle"
    /\ IF waitQueueDepth >= MaxWaitQueueDepth
         THEN /\ pc' = [pc EXCEPT ![p] = "returned"]
              /\ spawnRet' = [spawnRet EXCEPT ![p] = ErrQueueFull]
              /\ UNCHANGED <<waitQueueDepth, admitted>>
         ELSE /\ waitQueueDepth' = waitQueueDepth + 1
              /\ pc' = [pc EXCEPT ![p] = "select"]
              /\ admitted' = [admitted EXCEPT ![p] = TRUE]
              /\ UNCHANGED spawnRet
    /\ UNCHANGED <<spawnSlots, ctx, err, executed, execVars, runVars>>
    /\ UNCHANGED appVars

\* Lines 47-52: the select.  It blocks while neither case is ready and
\* takes either case when both are.
SelectNoTake(p) ==
    /\ pc[p] = "select"
    /\ \/ /\ ctx[p] # "live"
          /\ err' = [err EXCEPT ![p] = <<ctx[p]>>]
       \/ /\ spawnSlots > 0
          /\ UNCHANGED err
    /\ UNCHANGED spawnSlots
    /\ pc' = [pc EXCEPT ![p] = "dec"]
    /\ UNCHANGED <<waitQueueDepth, ctx, admitted, executed, spawnRet, execVars, runVars>>
    /\ UNCHANGED appVars

SelectNonBlocking(p) ==
    /\ pc[p] = "select"
    /\ \/ /\ ctx[p] # "live"
          /\ err' = [err EXCEPT ![p] = <<ctx[p]>>]
          /\ UNCHANGED spawnSlots
       \/ /\ spawnSlots > 0
          /\ spawnSlots' = spawnSlots - 1
          /\ UNCHANGED err
       \/ /\ ctx[p] = "live"
          /\ spawnSlots = 0
          /\ err' = [err EXCEPT ![p] = <<"DeadlineExceeded">>]
          /\ UNCHANGED spawnSlots
    /\ pc' = [pc EXCEPT ![p] = "dec"]
    /\ UNCHANGED <<waitQueueDepth, ctx, admitted, executed, spawnRet, execVars, runVars>>
    /\ UNCHANGED appVars

SelectPermitOnly(p) ==
    /\ pc[p] = "select"
    /\ spawnSlots > 0
    /\ spawnSlots' = spawnSlots - 1
    /\ UNCHANGED err
    /\ pc' = [pc EXCEPT ![p] = "dec"]
    /\ UNCHANGED <<waitQueueDepth, ctx, admitted, executed, spawnRet, execVars, runVars>>
    /\ UNCHANGED appVars

Select(p) ==
    /\ pc[p] = "select"
    /\ \/ /\ ctx[p] # "live"
          /\ err' = [err EXCEPT ![p] = <<ctx[p]>>]
          /\ UNCHANGED spawnSlots
       \/ /\ spawnSlots > 0
          /\ spawnSlots' = spawnSlots - 1
          /\ UNCHANGED err
    /\ pc' = [pc EXCEPT ![p] = "dec"]
    /\ UNCHANGED <<waitQueueDepth, ctx, admitted, executed, spawnRet, execVars, runVars>>
    /\ UNCHANGED appVars

\* Lines 54-66: the decrement under the mutex, the return of the context's
\* error, otherwise the call of command.Exec.
Dec(p) ==
    /\ pc[p] = "dec"
    /\ waitQueueDepth' = waitQueueDepth - 1
    /\ IF err[p] # Nil
         THEN /\ pc' = [pc EXCEPT ![p] = "returned"]
              /\ spawnRet' = [spawnRet EXCEPT ![p] = err[p]]
              /\ UNCHANGED executed
         ELSE /\ pc' = [pc EXCEPT ![p] = "exec"]
              /\ executed' = [executed EXCEPT ![p] = TRUE]
              /\ UNCHANGED spawnRet
    /\ UNCHANGED <<spawnSlots, ctx, err, admitted, execVars, runVars>>
    /\ UNCHANGED appVars

\* Lines 62-66: Exec has returned e; the deferred function puts the permit
\* back (a send on the buffered channel, which blocks while it is full) and
\* Spawn returns e.
SpawnReturnLeakOnError(p, e) ==
    /\ IF e = Nil
         THEN spawnSlots < MaxSlots /\ spawnSlots' = spawnSlots + 1
         ELSE UNCHANGED spawnSlots
    /\ spawnRet' = [spawnRet EXCEPT ![p] = e]
    /\ pc' = [pc EXCEPT ![p] = "returned"]
    /\ UNCHANGED <<waitQueueDepth, ctx, err, admitted, executed>>
    /\ UNCHANGED appVars

SpawnReturn(p, e) ==
    /\ spawnSlots < MaxSlots
    /\ spawnSlots' = spawnSlots + 1
    /\ spawnRet' = [spawnRet EXCEPT ![p] = e]
    /\ pc' = [pc EXCEPT ![p] = "returned"]
    /\ UNCHANGED <<waitQueueDepth, ctx, err, admitted, executed>>
    /\ UNCHANGED appVars

\* The values a Command's Exec may return to the pool: nil, a failure of
\* its own, or the error of the context it was given once that is done.
ExecOutcomes(p) ==
    {Nil, <<"command failed">>} \cup (IF ctx[p] # "live" THEN {<<ctx[p]>>} ELSE {})

\* Exec of an arbitrary Command (the Command interface) runs and returns e.
CommandExec(p, e) ==
    /\ pc[p] = "exec"
    /\ e \in ExecOutcomes(p)
    /\ SpawnReturn(p, e)
    /\ UNCHANGED <<execVars, runVars>>
    /\ UNCHANGED appVars

\* The caller's goroutine ends; the caller issues a new call with a fresh
\* context and a fresh Command.
Return(p) ==
    /\ pc[p] \in {"returned", "done"}
    /\ pc' = [pc EXCEPT ![p] = "idle"]
    /\ ctx' = [ctx EXCEPT ![p] = "live"]
    /\ err' = [err EXCEPT ![p] = Nil]
    /\ admitted' = [admitted EXCEPT ![p] = FALSE]
    /\ executed' = [executed EXCEPT ![p] = FALSE]
    /\ spawnRet' = [spawnRet EXCEPT ![p] = Nil]
    /\ tctx' = [tctx EXCEPT ![p] = "none"]
    /\ stdin' = [stdin EXCEPT ![p] = "none"]
    /\ proc' = [proc EXCEPT ![p] = "none"]
    /\ exitCode' = [exitCode EXCEPT ![p] = 0]
    /\ waited' = [waited EXCEPT ![p] = FALSE]
    /\ fault' = [fault EXCEPT ![p] = "none"]
    /\ stdout' = [stdout EXCEPT ![p] = "empty"]
    /\ stderr' = [stderr EXCEPT ![p] = << >>]
    /\ runRet' = [runRet EXCEPT ![p] = Nil]
    /\ result' = [result EXCEPT ![p] = NoReturn]
    /\ UNCHANGED poolVars
    /\ UNCHANGED appVars

\* ---------------------------------------------- the pool specification
\* Concurrent callers of Spawn with arbitrary Commands.
NextPool ==
    \E p \in Callers :
        \/ Admit(p)
        \/ Select(p)
        \/ Dec(p)
        \/ \E e \in ExecOutcomes(p) : CommandExec(p, e)
        \/ \E e \in CtxErrs : CtxFire(p, e)
        \/ /\ pc[p] = "returned"
           /\ Return(p)

SpecPool == Init /\ [][NextPool]_vars

\* The goroutine of a caller keeps running: a select with a ready case is
\* taken, and the mutex around the decrement is obtained.  Nothing is
\* assumed about contexts being cancelled or about Exec returning.
SpawnFairness == \A p \in Callers : WF_vars(Select(p)) /\ WF_vars(Dec(p))
SpecPoolLive == SpecPool /\ SpawnFairness

\* -------------------------------------------------- the evaluator Command
\* What the isolated process may have written when it is waited for.
Line(kind, n) == <<kind, n>>
StdoutContents == {"empty", "headers", "full"}
\* The evaluator runs with --log-level=debug and logs while it starts.
ProcStderr == <<Line("log", 0)>>
ExitCodes == {0, 1}
KilledExitCode == 0 - 1

\* The I/O failures the operating system may inject into one execution.
StartFaults == {"none", "marshal", "pipe", "start"}

\* WithTimeout.Exec derives the context (command.go 47-52); Command.Exec
\* marshals the request, creates the stdin pipe and starts the process
\* (lines 279-305).  cmd.Start fails with the context's error when the
\* context is already done.
ExecStart(p, f) ==
    /\ pc[p] = "exec"
    /\ f \in StartFaults
    /\ LET derived == IF ctx[p] = "live" THEN "live" ELSE ctx[p]
       IN  CASE f = "marshal" ->
                  /\ SpawnReturn(p, Wrap("marshaling request", <<"io error">>))
                  /\ fault' = [fault EXCEPT ![p] = f]
                  /\ UNCHANGED <<tctx, stdin, proc>>
             [] f = "pipe" ->
                  /\ SpawnReturn(p, Wrap("setting up child process stdin pipe", <<"io error">>))
                  /\ fault' = [fault EXCEPT ![p] = f]
                  /\ UNCHANGED <<tctx, stdin, proc>>
             [] f = "start" \/ (f = "none" /\ derived # "live") ->
                  /\ SpawnReturn(p, Wrap("starting command",
                                         IF derived # "live" THEN <<derived>> ELSE <<"io error">>))
                  /\ fault' = [fault EXCEPT ![p] = "start"]
                  /\ stdin' = [stdin EXCEPT ![p] = "closed"]
                  /\ UNCHANGED <<tctx, proc>>
             [] OTHER ->
                  /\ tctx' = [tctx EXCEPT ![p] = "live"]
                  /\ stdin' = [stdin EXCEPT ![p] = "open"]
                  /\ proc' = [proc EXCEPT ![p] = "running"]
                  /\ pc' = [pc EXCEPT ![p] = "write"]
                  /\ UNCHANGED <<poolVars, ctx, err, admitted, executed, spawnRet, fault>>
    /\ UNCHANGED <<exitCode, waited, stdout, stderr, runVars>>
    /\ UNCHANGED appVars

\* The timeout of WithTimeout elapses while Exec is running.
TimeoutFire(p) ==
    /\ tctx[p] = "live"
    /\ tctx' = [tctx EXCEPT ![p] = "DeadlineExceeded"]
    /\ UNCHANGED <<poolVars, callVars, runVars>>
    /\ UNCHANGED <<stdin, proc, exitCode, waited, fault, stdout, stderr>>
    /\ UNCHANGED appVars

\* exec.CommandContext: once the context is done the running process is
\* killed (os.Process.Kill).
Kill(p) ==
    /\ tctx[p] \in CtxErrs
    /\ proc[p] = "running"
    /\ proc' = [proc EXCEPT ![p] = "killed"]
    /\ exitCode' = [exitCode EXCEPT ![p] = KilledExitCode]
    /\ UNCHANGED <<poolVars, callVars, runVars>>
    /\ UNCHANGED <<tctx, stdin, waited, fault, stdout, stderr>>
    /\ UNCHANGED appVars

\* The isolated process exits by itself.
ProcExit(p, code) ==
    /\ proc[p] = "running"
    /\ proc' = [proc EXCEPT ![p] = "exited"]
    /\ exitCode' = [exitCode EXCEPT ![p] = code]
    /\ UNCHANGED <<poolVars, callVars, runVars>>
    /\ UNCHANGED <<tctx, stdin, waited, fault, stdout, stderr>>
    /\ UNCHANGED appVars

\* WithTimeout.Exec, line 49: the deferred cancel() releases the derived
\* context when Exec returns; a context that is not yet done becomes done
\* with Canceled.
CancelDerivedNever(t) == t
CancelDerived(t) == IF t = "live" THEN "Canceled" ELSE t

\* Lines 307-311: write the dynamic configuration to the child's stdin.
ExecWriteNoClose(p, ok) ==
    /\ pc[p] = "write"
    /\ IF ok
         THEN /\ pc' = [pc EXCEPT ![p] = "close"]
              /\ UNCHANGED <<poolVars, ctx, err, admitted, executed, spawnRet>>
              /\ UNCHANGED <<tctx, stdin, fault>>
         ELSE /\ SpawnReturn(p, Wrap("writing request on child process stdin", <<"io error">>))
              /\ fault' = [fault EXCEPT ![p] = "write"]
              /\ tctx' = [tctx EXCEPT ![p] = CancelDerived(@)]
              /\ UNCHANGED stdin
    /\ UNCHANGED <<proc, exitCode, waited, stdout, stderr, runVars>>
    /\ UNCHANGED appVars

ExecWrite(p, ok) ==
    /\ pc[p] = "write"
    /\ IF ok
         THEN /\ pc' = [pc EXCEPT ![p] = "close"]
              /\ UNCHANGED <<poolVars, ctx, err, admitted, executed, spawnRet>>
              /\ UNCHANGED <<tctx, stdin, fault>>
         ELSE /\ SpawnReturn(p, Wrap("writing request on child process stdin", <<"io error">>))
              /\ stdin' = [stdin EXCEPT ![p] = "closed"]
              /\ fault' = [fault EXCEPT ![p] = "write"]
              /\ tctx' = [tctx EXCEPT ![p] = CancelDerived(@)]
    /\ UNCHANGED <<proc, exitCode, waited, stdout, stderr, runVars>>
    /\ UNCHANGED appVars

\* Lines 313-315: close the child's stdin.
ExecClose(p, ok) ==
    /\ pc[p] = "close"
    /\ stdin' = [stdin EXCEPT ![p] = "closed"]
    /\ IF ok
         THEN /\ pc' = [pc EXCEPT ![p] = "wait"]
              /\ UNCHANGED <<poolVars, ctx, err, admitted, executed, spawnRet>>
              /\ UNCHANGED <<tctx, fault>>
         ELSE /\ SpawnReturn(p, Wrap("closing child process stdin", <<"io error">>))
              /\ fault' = [fault EXCEPT ![p] = "close"]
              /\ tctx' = [tctx EXCEPT ![p] = CancelDerived(@)]
    /\ UNCHANGED <<proc, exitCode, waited, stdout, stderr, runVars>>
    /\ UNCHANGED appVars

\* The error of cmd.Wait (os/exec): an *ExitError when the process did not
\* exit with status 0, which includes a process killed by a signal; else
\* the context's error when the context interrupted the command (w = "ctx");
\* else an error of the goroutines copying the output (w = "io"); else nil.
WaitOutcomes(p) ==
    IF proc[p] = "exited" /\ exitCode[p] = 0
      THEN {"ok", "io"} \cup (IF tctx[p] \in CtxErrs THEN {"ctx"} ELSE {})
      ELSE {"ok"}

CmdWait(p, w) ==
    IF proc[p] = "killed" \/ exitCode[p] # 0 THEN <<"ExitError">>
    ELSE IF w = "ctx" THEN <<tctx[p]>>
    ELSE IF w = "io" THEN <<"io error">>
    ELSE Nil

\* Lines 317-333: what Exec returns, and what it appends to stderr, for the
\* error werr of cmd.Wait and the exit code of the process.
ExecAfterWaitExitIsFatal(werr, code) ==
    IF werr # Nil
      THEN [ret |-> Wrap("running command", werr), diag |-> << >>]
      ELSE [ret |-> Nil, diag |-> << >>]

ExecAfterWait(werr, code) ==
    IF werr # Nil
      THEN IF AsExitError(werr)
             THEN [ret |-> Nil, diag |-> <<Line("command failed with status", code)>>]
             ELSE [ret |-> Wrap("running command", werr), diag |-> << >>]
      ELSE [ret |-> Nil, diag |-> << >>]

\* Lines 317-334: cmd.Wait returns once the process has exited or was
\* killed and its output has been copied to the buffers.
ExecWait(p, w, out) ==
    /\ pc[p] = "wait"
    /\ proc[p] \in {"exited", "killed"}
    /\ w \in WaitOutcomes(p)
    /\ LET r == ExecAfterWait(CmdWait(p, w), exitCode[p])
       IN  /\ SpawnReturn(p, r.ret)
           /\ stdout' = [stdout EXCEPT ![p] = out]
           /\ stderr' = [stderr EXCEPT ![p] = ProcStderr \o r.diag]
    /\ waited' = [waited EXCEPT ![p] = TRUE]
    /\ fault' = [fault EXCEPT ![p] = IF w = "io" THEN "wait" ELSE @]
    /\ tctx' = [tctx EXCEPT ![p] = CancelDerived(@)]
    /\ UNCHANGED <<stdin, proc, exitCode, runVars>>
    /\ UNCHANGED appVars

\* ------------------------------------------- Traefik.Run, Controller.Run
\* Command.Result (lines 337-346): http.ReadResponse needs the complete
\* header of the response.
CommandResult(out, log) ==
    IF out = "empty"
      THEN [res |-> ZeroResult, err |-> Wrap("reading response", <<"unexpected EOF">>)]
      ELSE [res |-> [response |-> out, logs |-> log], err |-> Nil]

\* Traefik.Run (experiment.go 301-317) after Spawn returned serr.
TraefikRunReadsAlways(serr, out, log) ==
    LET r == CommandResult(out, log)
    IN  IF r.err # Nil
          THEN [res |-> ZeroResult, err |-> Wrap("getting Traefik result", r.err)]
          ELSE r

TraefikRun(serr, out, log) ==
    IF serr # Nil
      THEN [res |-> ZeroResult, err |-> serr]
      ELSE LET r == CommandResult(out, log)
           IN  IF r.err # Nil
                 THEN [res |-> ZeroResult, err |-> Wrap("getting Traefik result", r.err)]
                 ELSE r

\* Controller.Run (experiment.go 242-271) for the return value r of the runner.
ControllerRunDeadlineOnly(r) ==
    IF r.err # Nil
      THEN IF ErrIs(r.err, "DeadlineExceeded")
             THEN [res |-> ZeroResult, err |-> <<"ErrRunTimeout">>]
             ELSE [res |-> ZeroResult, err |-> Wrap("running Traefik experiment", r.err)]
      ELSE IF r.res.response = "headers"
             THEN [res |-> ZeroResult,
                   err |-> Wrap("reading Traefik result response body", <<"unexpected EOF">>)]
             ELSE [res |-> r.res, err |-> Nil]

ControllerRun(r) ==
    IF r.err # Nil
      THEN IF ErrIs(r.err, "DeadlineExceeded") \/ ErrIs(r.err, "Canceled")
             THEN [res |-> ZeroResult, err |-> <<"ErrRunTimeout">>]
             ELSE [res |-> ZeroResult, err |-> Wrap("running Traefik experiment", r.err)]
      ELSE IF r.res.response = "headers"
             THEN [res |-> ZeroResult,
                   err |-> Wrap("reading Traefik result response body", <<"unexpected EOF">>)]
             ELSE [res |-> r.res, err |-> Nil]

\* Spawn has returned to Traefik.Run, which returns to Controller.Run.
\* The locals of Spawn and the buffers of the Command go out of scope.
RunFinish(p) ==
    /\ pc[p] = "returned"
    /\ LET r == TraefikRun(spawnRet[p], stdout[p], stderr[p])
       IN  /\ runRet' = [runRet EXCEPT ![p] = r.err]
           /\ result' = [result EXCEPT ![p] = ControllerRun(r)]
    /\ pc' = [pc EXCEPT ![p] = "done"]
    /\ err' = [err EXCEPT ![p] = Nil]
    /\ spawnRet' = [spawnRet EXCEPT ![p] = Nil]
    /\ stdin' = [stdin EXCEPT ![p] = "none"]
    /\ exitCode' = [exitCode EXCEPT ![p] = 0]
    /\ fault' = [fault EXCEPT ![p] = "none"]
    /\ stdout' = [stdout EXCEPT ![p] = "empty"]
    /\ stderr' = [stderr EXCEPT ![p] = << >>]
    /\ tctx' = [tctx EXCEPT ![p] = "none"]
    /\ UNCHANGED <<poolVars, ctx, admitted, executed, proc, waited>>
    /\ UNCHANGED appVars

\* ------------------------------------------- the pipeline specification
\* Concurrent calls of Controller.Run with the evaluator Command.
NextRun ==
    \/ \E p \in Contenders :
        \/ Admit(p)
        \/ Select(p)
        \/ Dec(p)
        \/ \E e \in ExecOutcomes(p) : CommandExec(p, e)
        \/ \E e \in CtxErrs : CtxFire(p, e)
        \/ /\ pc[p] = "returned"
           /\ Return(p)
    \/ \E p \in Runners :
        \/ Admit(p)
        \/ Select(p)
        \/ Dec(p)
        \/ \E f \in StartFaults : ExecStart(p, f)
        \/ \E ok \in BOOLEAN : ExecWrite(p, ok)
        \/ \E ok \in BOOLEAN : ExecClose(p, ok)
        \/ \E w \in {"ok", "ctx", "io"}, out \in StdoutContents : ExecWait(p, w, out)
        \/ \E code \in ExitCodes : ProcExit(p, code)
        \/ TimeoutFire(p)
        \/ Kill(p)
        \/ \E e \in CtxErrs : CtxFire(p, e)
        \/ /\ pc[p] = "returned"
           /\ RunFinish(p)
        \/ /\ pc[p] = "done"
           /\ Return(p)

SpecRun == Init /\ [][NextRun]_vars

\* ============================================================ run bundles
\* Go strings are byte strings.  The strings of the model are built from the
\* byte 'a' and the byte 0xFF, which no UTF-8 text contains.
MaxStrLen == 1
StrBytes == {97, 255}

RECURSIVE SeqsUpTo(_, _)
SeqsUpTo(S, n) ==
    IF n = 0
      THEN {<< >>}
      ELSE LET T == SeqsUpTo(S, n - 1)
           IN  T \cup {Append(t, x) : t \in {u \in T : Len(u) = n - 1}, x \in S}

GoStrings == SeqsUpTo(StrBytes, MaxStrLen)

\* "http://example.com"
ExampleURL ==
    <<104, 116, 116, 112, 58, 47, 47, 101, 120, 97, 109, 112, 108, 101, 46, 99, 111, 109>>

\* The experiments and results of the model: the dynamic configuration and
\* the request body are user input, the log messages are raw stderr lines.
Experiments ==
    {[dynamicConfig |-> <<35>>,
      request |-> [method |-> "GET", url |-> ExampleURL,
                   headers |-> << >>, body |-> b]] : b \in GoStrings}
Results ==
    {[response |-> [proto |-> "HTTP/1.1", statusCode |-> 200, body |-> << >>],
      logs |-> l] : l \in {<< >>} \cup {<<[message |-> <<b>>]>> : b \in StrBytes}}
Keys == {ServerKey, "k2"}

\* encoding/json writes a string coerced to valid UTF-8: every byte that
\* does not start a well-formed UTF-8 sequence becomes U+FFFD (EF BF BD).
Utf8Replacement == <<239, 191, 189>>
IsCont(b) == b >= 128 /\ b <= 191
Utf8Len(s) ==
    LET b == s[1]
        c(i) == Len(s) >= i /\ IsCont(s[i])
    IN  IF b < 128 THEN 1
        ELSE IF b >= 194 /\ b <= 223 /\ c(2) THEN 2
        ELSE IF b = 224 /\ c(2) /\ s[2] >= 160 /\ c(3) THEN 3
        ELSE IF b = 237 /\ c(2) /\ s[2] <= 159 /\ c(3) THEN 3
        ELSE IF b >= 225 /\ b <= 239 /\ b # 237 /\ c(2) /\ c(3) THEN 3
        ELSE IF b = 240 /\ c(2) /\ s[2] >= 144 /\ c(3) /\ c(4) THEN 4
        ELSE IF b >= 241 /\ b <= 243 /\ c(2) /\ c(3) /\ c(4) THEN 4
        ELSE IF b = 244 /\ c(2) /\ s[2] <= 143 /\ c(3) /\ c(4) THEN 4
        ELSE 0

RECURSIVE CoerceUTF8(_)
CoerceUTF8(s) ==
    IF s = << >>
      THEN << >>
      ELSE LET n == Utf8Len(s)
           IN  IF n = 0
                 THEN Utf8Replacement \o CoerceUTF8(Tail(s))
                 ELSE SubSeq(s, 1, n) \o CoerceUTF8(SubSeq(s, n + 1, Len(s)))

\* The JSON document json.Marshal writes for runBundle{Experiment, Result}.
MarshalExperiment(e) ==
    [dynamicConfig |-> CoerceUTF8(e.dynamicConfig),
     request |-> [e.request EXCEPT !.body = CoerceUTF8(@)]]
MarshalResult(r) ==
    [response |-> r.response,
     logs |-> [i \in DOMAIN r.logs |-> [message |-> CoerceUTF8(r.logs[i].message)]]]
RunBundleDoc(e, r) == [experiment |-> MarshalExperiment(e), result |-> MarshalResult(r)]

\* The text of a document.  The keys and the fields that are the same in
\* every bundle of the model are left out; what remains is
\* {"<dynamicConfig>","<body>",["<message>",...]}.
Quote(s) == <<34>> \o s \o <<34>>
RECURSIVE JSONLogs(_)
JSONLogs(l) ==
    IF l = << >> THEN << >>
    ELSE Quote(l[1].message) \o (IF Len(l) > 1 THEN <<44>> ELSE << >>) \o JSONLogs(Tail(l))
JSONText(d) ==
    <<123>> \o Quote(d.experiment.dynamicConfig) \o <<44>>
            \o Quote(d.experiment.request.body) \o <<44, 91>>
            \o JSONLogs(d.result.logs) \o <<93, 125>>

jsonMarshal(e, r) == JSONText(RunBundleDoc(e, r))

\* json.Unmarshal into a runBundle: the document whose text it is given,
\* or an error when the text is no such document.
BundleDocs == {RunBundleDoc(e, r) : e \in Experiments, r \in Results}
jsonUnmarshal(text) ==
    IF \E d \in BundleDocs : JSONText(d) = text
      THEN [b |-> CHOOSE d \in BundleDocs : JSONText(d) = text, err |-> Nil]
      ELSE [b |-> [experiment |-> ZeroExperiment, result |-> ZeroRunResult],
            err |-> <<"json: cannot unmarshal">>]

\* base64.StdEncoding.  A character of the alphabet is written as its
\* 6-bit value; Pad is '=', NewLine stands for '\r' and '\n', OtherByte for
\* every other byte.
Pad == 64
OtherByte == 65
NewLine == 66
B64Symbols == 0..66

RECURSIVE EncodeToString(_)
EncodeToString(b) ==
    IF b = << >> THEN << >>
    ELSE IF Len(b) = 1
      THEN <<b[1] \div 4, (b[1] % 4) * 16, Pad, Pad>>
    ELSE IF Len(b) = 2
      THEN <<b[1] \div 4, (b[1] % 4) * 16 + b[2] \div 16, (b[2] % 16) * 4, Pad>>
    ELSE <<b[1] \div 4, (b[1] % 4) * 16 + b[2] \div 16,
           (b[2] % 16) * 4 + b[3] \div 64, b[3] % 64>>
         \o EncodeToString(SubSeq(b, 4, Len(b)))

\* DecodeString: '\r' and '\n' are ignored; the text is read four
\* characters at a time; padding is allowed in the last group only; the
\* decoding is not strict, so the bits of the last character that encode
\* no byte are not looked at.
CorruptInputError == <<"illegal base64 data">>
IsSextet(c) == c < 64
RECURSIVE DecodeQuanta(_)
DecodeQuanta(t) ==
    IF t = << >> THEN [bytes |-> << >>, err |-> Nil]
    ELSE IF Len(t) < 4 \/ ~IsSextet(t[1]) \/ ~IsSextet(t[2])
      THEN [bytes |-> << >>, err |-> CorruptInputError]
    ELSE IF IsSextet(t[3]) /\ IsSextet(t[4])
      THEN LET rest == DecodeQuanta(SubSeq(t, 5, Len(t)))
           IN  IF rest.err # Nil THEN rest
               ELSE [bytes |-> <<t[1] * 4 + t[2] \div 16,
                                 (t[2] % 16) * 16 + t[3] \div 4,
                                 (t[3] % 4) * 64 + t[4]>> \o rest.bytes,
                     err |-> Nil]
    ELSE IF IsSextet(t[3]) /\ t[4] = Pad /\ Len(t) = 4
      THEN [bytes |-> <<t[1] * 4 + t[2] \div 16, (t[2] % 16) * 16 + t[3] \div 4>>,
            err |-> Nil]
    ELSE IF t[3] = Pad /\ t[4] = Pad /\ Len(t) = 4
      THEN [bytes |-> <<t[1] * 4 + t[2] \div 16>>, err |-> Nil]
    ELSE [bytes |-> << >>, err |-> CorruptInputError]

DecodeString(t) ==
    LET stripped == SelectSeq(t, LAMBDA c : c # NewLine)
    IN  IF \E i \in DOMAIN stripped : stripped[i] = OtherByte
          THEN [bytes |-> << >>, err |-> CorruptInputError]
          ELSE DecodeQuanta(stripped)

\* generateHMAC: the base64 text of HMAC-SHA256(secretKey, data).  The
\* code is taken as ideal: two texts are equal only if they were computed
\* from the same key and data and had the same byte changed afterwards.
SignatureLen == 44
generateHMAC(data, key) == [key |-> key, data |-> data, changed |-> << >>]

ErrInvalidSignature == <<"invalid response signature">>

marshalRunBundle(e, r, key) ==
    LET marshaled == jsonMarshal(e, r)
    IN  [bundle |-> EncodeToString(marshaled),
         signature |-> generateHMAC(marshaled, key),
         err |-> Nil]

\* unmarshalRunBundle, lines 393-419, with the library calls it makes on
\* the way to each return.
unmarshalRunBundleJSONFirst(b, sig, key) ==
    LET decoded == DecodeString(b)
        parsed == jsonUnmarshal(decoded.bytes)
        ret(e, r, er, c) == [exp |-> e, res |-> r, err |-> er, calls |-> c]
    IN  IF decoded.err # Nil
          THEN ret(ZeroExperiment, ZeroRunResult, decoded.err, <<"DecodeString">>)
        ELSE IF parsed.err # Nil
          THEN ret(ZeroExperiment, ZeroRunResult, parsed.err,
                   <<"DecodeString", "json.Unmarshal">>)
        ELSE IF generateHMAC(decoded.bytes, key) # sig
          THEN ret(ZeroExperiment, ZeroRunResult, ErrInvalidSignature,
                   <<"DecodeString", "json.Unmarshal", "generateHMAC", "hmac.Equal">>)
        ELSE ret(parsed.b.experiment, parsed.b.result, Nil,
                 <<"DecodeString", "json.Unmarshal", "generateHMAC", "hmac.Equal">>)

unmarshalRunBundleTrace(b, sig, key) ==
    LET decoded == DecodeString(b)
        parsed == jsonUnmarshal(decoded.bytes)
        ret(e, r, er, c) == [exp |-> e, res |-> r, err |-> er, calls |-> c]
    IN  IF decoded.err # Nil
          THEN ret(ZeroExperiment, ZeroRunResult, decoded.err, <<"DecodeString">>)
        ELSE IF generateHMAC(decoded.bytes, key) # sig
          THEN ret(ZeroExperiment, ZeroRunResult, ErrInvalidSignature,
                   <<"DecodeString", "generateHMAC", "hmac.Equal">>)
        ELSE IF parsed.err # Nil
          THEN ret(ZeroExperiment, ZeroRunResult, parsed.err,
                   <<"DecodeString", "generateHMAC", "hmac.Equal", "json.Unmarshal">>)
        ELSE ret(parsed.b.experiment, parsed.b.result, Nil,
                 <<"DecodeString", "generateHMAC", "hmac.Equal", "json.Unmarshal">>)

\* What unmarshalRunBundle returns.
unmarshalRunBundle(b, sig, key) ==
    LET t == unmarshalRunBundleTrace(b, sig, key)
    IN  [exp |-> t.exp, res |-> t.res, err |-> t.err]

\* ------------------------------------------- the run bundle specification
\* One bundle: the server marshals (exp, res) under secretKey, the client
\* holds the pair and may change one byte of it, the server unmarshals what
\* the client sends back.
InitBundle ==
    /\ InitPipeline
    /\ InitFake
    /\ exp \in Experiments
    /\ res \in Results
    /\ secretKey \in Keys
    /\ bundle = << >>
    /\ signature = NoSignature
    /\ tampered = "no"
    /\ unmarshalRet = NoUnmarshal
    /\ step = "input"
    /\ calls = << >>
    /\ InitShareIdle
    /\ InitValidIdle
    /\ InitMakeIdle
    /\ InitLogsIdle

Marshal ==
    /\ step = "input"
    /\ LET m == marshalRunBundle(exp, res, secretKey)
       IN  /\ bundle' = m.bundle
           /\ signature' = m.signature
    /\ step' = "marshaled"
    /\ UNCHANGED <<exp, res, secretKey, tampered, unmarshalRet, calls>>
    /\ UNCHANGED notBundleVars

\* The client changes the byte at place i of the encoded bundle into c.
TamperBundle(i, c) ==
    /\ step = "marshaled"
    /\ i \in DOMAIN bundle
    /\ c # bundle[i]
    /\ bundle' = [bundle EXCEPT ![i] = c]
    /\ tampered' = "bundle"
    /\ step' = "tampered"
    /\ UNCHANGED <<exp, res, secretKey, signature, unmarshalRet, calls>>
    /\ UNCHANGED notBundleVars

\* The client changes the byte at place i of the signature.
TamperSignature(i) ==
    /\ step = "marshaled"
    /\ signature' = [signature EXCEPT !.changed = <<i>>]
    /\ tampered' = "signature"
    /\ step' = "tampered"
    /\ UNCHANGED <<exp, res, secretKey, bundle, unmarshalRet, calls>>
    /\ UNCHANGED notBundleVars

Unmarshal ==
    /\ step \in {"marshaled", "tampered"}
    /\ unmarshalRet' = unmarshalRunBundle(bundle, signature, secretKey)
    /\ calls' = unmarshalRunBundleTrace(bundle, signature, secretKey).calls
    /\ step' = "unmarshaled"
    /\ UNCHANGED <<exp, res, secretKey, bundle, signature, tampered>>
    /\ UNCHANGED notBundleVars

NextBundle ==
    \/ Marshal
    \/ \E i \in 1..Len(bundle), c \in B64Symbols : TamperBundle(i, c)
    \/ \E i \in 1..SignatureLen : TamperSignature(i)
    \/ Unmarshal

SpecBundle == InitBundle /\ [][NextBundle]_vars

\* ====================================================== sharing and store
\* Bound on the calls of shortuuid.New().
MaxSaves == 2
\* The instants of the database clock.
Times == {0, 1}

\* What /run is asked to run and what the evaluator answers.
AppExperiments == {e \in Experiments : e.request.body \in {<<97>>, <<255>>}}
AppResults == {r \in Results : r.logs = <<[message |-> <<97>>]>>}

\* Store.Save, lines 100-113: the hexadecimal SHA-256 of the JSON text of
\* {experiment, result}.  The hash function is taken as free of collisions.
Hash(e, r) == <<"sha256", jsonMarshal(e, r)>>

\* HTTPRequest.Value and Result.Value write the JSONB columns with
\* json.Marshal; HTTPRequest.Scan and Result.Scan read them back.
RequestValue(req) == [req EXCEPT !.body = CoerceUTF8(@)]
ResultValue(r) == MarshalResult(r)

\* The row of shared_experiments that Save sends: created_at defaults to
\* NOW(), last_retrieved_at to NULL (the empty tuple).
NewRow(publicID, e, r, clientIP, t) ==
    [publicId |-> publicID,
     hash |-> Hash(e, r),
     dynamicConfig |-> e.dynamicConfig,
     request |-> RequestValue(e.request),
     result |-> ResultValue(r),
     clientIP |-> clientIP,
     createdAt |-> t,
     lastRetrievedAt |-> << >>]

\* INSERT ... ON CONFLICT(hash) DO UPDATE SET hash = shared_experiments.hash
\* RETURNING public_id, one atomic statement: the row is inserted unless a
\* row with its hash exists; that row is then updated to its own hash, and
\* public_id is returned from the row the statement wrote.
InsertReturnsOwnID(table, row) ==
    IF \E old \in table : old.hash = row.hash
      THEN [table |-> table, publicId |-> row.publicId]
      ELSE [table |-> table \cup {row}, publicId |-> row.publicId]

InsertOverwritesClient(table, row) ==
    IF \E old \in table : old.hash = row.hash
      THEN LET old == CHOOSE o \in table : o.hash = row.hash
           IN  [table |-> (table \ {old}) \cup {[old EXCEPT !.clientIP = row.clientIP]},
                publicId |-> old.publicId]
      ELSE [table |-> table \cup {row}, publicId |-> row.publicId]

InsertOnConflict(table, row) ==
    IF \E old \in table : old.hash = row.hash
      THEN LET old == CHOOSE o \in table : o.hash = row.hash
           IN  [table |-> (table \ {old}) \cup {[old EXCEPT !.hash = old.hash]},
                publicId |-> old.publicId]
      ELSE [table |-> table \cup {row}, publicId |-> row.publicId]

\* UPDATE ... SET last_retrieved_at = NOW() WHERE public_id = $1 RETURNING
\* dynamic_config, request, result; then Store.Get, lines 148-155.
ErrNotFound == <<"not found">>
StoreGetFirstRow(table, id, t) ==
    IF table = {}
      THEN [table |-> table, exp |-> ZeroExperiment, res |-> ZeroRunResult,
            err |-> ErrNotFound]
      ELSE LET row == CHOOSE r \in table : \A o \in table : r.publicId <= o.publicId
           IN  [table |-> (table \ {row}) \cup {[row EXCEPT !.lastRetrievedAt = <<t>>]},
                exp |-> [dynamicConfig |-> row.dynamicConfig, request |-> row.request],
                res |-> row.result,
                err |-> Nil]

StoreGetStampsAll(table, id, t) ==
    IF \E r \in table : r.publicId = id
      THEN LET row == CHOOSE r \in table : r.publicId = id
           IN  [table |-> {[r EXCEPT !.lastRetrievedAt = <<t>>] : r \in table},
                exp |-> [dynamicConfig |-> row.dynamicConfig, request |-> row.request],
                res |-> row.result,
                err |-> Nil]
      ELSE [table |-> table, exp |-> ZeroExperiment, res |-> ZeroRunResult,
            err |-> ErrNotFound]

StoreGet(table, id, t) ==
    IF \E r \in table : r.publicId = id
      THEN LET row == CHOOSE r \in table : r.publicId = id
           IN  [table |-> (table \ {row}) \cup {[row EXCEPT !.lastRetrievedAt = <<t>>]},
                exp |-> [dynamicConfig |-> row.dynamicConfig, request |-> row.request],
                res |-> row.result,
                err |-> Nil]
      ELSE [table |-> table, exp |-> ZeroExperiment, res |-> ZeroRunResult,
            err |-> ErrNotFound]

\* ------------------------------------------------------------ the client
\* What a client can send as (runBundle, runBundleSignature): the pairs the
\* server rendered, such a bundle or signature with one byte changed, the
\* bundle of any content it writes itself, and the HMAC of that under a
\* key of its own.  It cannot compute an HMAC under the server's key.
ClientKey == "k2"
ChangeOneByte(b) ==
    {[b EXCEPT ![1] = OtherByte], [b EXCEPT ![Len(b) - 1] = (b[Len(b) - 1] + 1) % 64],
     [b EXCEPT ![Len(b) - 2] = (b[Len(b) - 2] + 1) % 64]}
ForgedTexts ==
    {jsonMarshal(e, r) : e \in {x \in Experiments : x.request.body = << >>}, r \in AppResults}
ClientPairs(known) ==
    {[bundle |-> p.bundle, signature |-> q.signature] : p \in known, q \in known}
      \cup UNION {{[bundle |-> b, signature |-> p.signature] : b \in ChangeOneByte(p.bundle)} :
                     p \in known}
      \cup {[bundle |-> p.bundle, signature |-> [p.signature EXCEPT !.changed = <<1>>]] :
                p \in known}
      \cup UNION {{[bundle |-> EncodeToString(t), signature |-> sig] :
                      sig \in {generateHMAC(t, ClientKey), NoSignature}
                                 \cup {p.signature : p \in known}} :
                     t \in ForgedTexts}

\* ----------------------------------------------------------- the handlers
\* App.RunExperiment (app.go 146-232) for an experiment MakeExperiment
\* accepted: Controller.Run fails, or returns r and the signed bundle of
\* (e, r) is rendered.
RunExperiment(e, ok, r) ==
    /\ IF ok
         THEN LET m == marshalRunBundle(e, r, secretKey)
              IN  /\ issued' = issued \cup {[bundle |-> m.bundle, signature |-> m.signature]}
                  /\ ran' = ran \cup {[exp |-> e, res |-> r]}
                  /\ response' = Respond("run", 200)
         ELSE /\ response' = Respond("run", 503)
              /\ UNCHANGED <<issued, ran>>
    /\ UNCHANGED <<rows, now, uuids, hpc, local, saveRets>>
    /\ UNCHANGED notShareVars

\* App.ShareExperiment, lines 235-269, up to the statement of Store.Save:
\* the bundle is verified, then Save draws the public id.
ShareExperimentUnverified(c, b, sig) ==
    /\ hpc[c] = "idle"
    /\ uuids < MaxSaves
    /\ LET dec == DecodeString(b)
           u == jsonUnmarshal(dec.bytes)
       IN  IF dec.err # Nil \/ u.err # Nil
             THEN /\ response' = [Respond("share", 400) EXCEPT !.client = c]
                  /\ UNCHANGED <<uuids, hpc, local>>
             ELSE /\ uuids' = uuids + 1
                  /\ local' = [local EXCEPT ![c] =
                         [exp |-> u.b.experiment, res |-> u.b.result, publicID |-> uuids + 1]]
                  /\ hpc' = [hpc EXCEPT ![c] = "save"]
                  /\ UNCHANGED response
    /\ UNCHANGED <<rows, now, issued, ran, saveRets>>
    /\ UNCHANGED notShareVars

ShareExperiment(c, b, sig) ==
    /\ hpc[c] = "idle"
    /\ uuids < MaxSaves
    /\ LET u == unmarshalRunBundle(b, sig, secretKey)
       IN  IF u.err # Nil
             THEN /\ response' = [Respond("share", 400) EXCEPT !.client = c]
                  /\ UNCHANGED <<uuids, hpc, local>>
             ELSE /\ uuids' = uuids + 1
                  /\ local' = [local EXCEPT ![c] =
                         [exp |-> u.exp, res |-> u.res, publicID |-> uuids + 1]]
                  /\ hpc' = [hpc EXCEPT ![c] = "save"]
                  /\ UNCHANGED response
    /\ UNCHANGED <<rows, now, issued, ran, saveRets>>
    /\ UNCHANGED notShareVars

\* Store.Save, lines 115-138, and the rest of ShareExperiment: the
\* statement runs, or fails without effect; the client is redirected to
\* /share/<id>.
SaveExec(c, dbok) ==
    /\ hpc[c] = "save"
    /\ IF dbok
         THEN LET l == local[c]
                  ins == InsertOnConflict(rows, NewRow(l.publicID, l.exp, l.res, c, now))
              IN  /\ rows' = ins.table
                  /\ saveRets' = saveRets \cup
                         {[exp |-> l.exp, res |-> l.res, id |-> ins.publicId]}
                  /\ response' = [Respond("share", 303) EXCEPT
                                     !.client = c, !.id = ins.publicId]
         ELSE /\ response' = [Respond("share", 500) EXCEPT !.client = c]
              /\ UNCHANGED <<rows, saveRets>>
    /\ hpc' = [hpc EXCEPT ![c] = "idle"]
    /\ local' = [local EXCEPT ![c] = NoLocal]
    /\ UNCHANGED <<now, uuids, issued, ran>>
    /\ UNCHANGED notShareVars

\* App.SharedExperiment, lines 288-334: Store.Get, then the bundle of what
\* was read is signed again and rendered.
SharedExperiment(id) ==
    /\ LET g == StoreGet(rows, id, now)
           m == marshalRunBundle(g.exp, g.res, secretKey)
       IN  /\ rows' = g.table
           /\ IF g.err # Nil
                THEN /\ response' = [Respond("shared", 404) EXCEPT !.id = id]
                     /\ UNCHANGED issued
                ELSE /\ response' = [Respond("shared", 200) EXCEPT
                                        !.id = id, !.exp = g.exp, !.res = g.res]
                     /\ issued' = issued \cup {[bundle |-> m.bundle, signature |-> m.signature]}
    /\ UNCHANGED <<now, uuids, hpc, local, ran, saveRets>>
    /\ UNCHANGED notShareVars

\* App.ExportExperiment, lines 337-368: the store is not used.
ExportExperiment(b, sig) ==
    /\ LET u == unmarshalRunBundle(b, sig, secretKey)
       IN  response' = IF u.err # Nil
                         THEN Respond("export", 400)
                         ELSE Respond("export", 200)
    /\ UNCHANGED <<rows, now, uuids, hpc, local, issued, ran, saveRets>>
    /\ UNCHANGED notShareVars

\* Time passes in the database.
Tick ==
    /\ now + 1 \in Times
    /\ now' = now + 1
    /\ UNCHANGED <<rows, uuids, hpc, local, response, issued, ran, saveRets>>
    /\ UNCHANGED notShareVars

\* The ids a client can ask for: those it was redirected to, and one that
\* was never given out.
UnknownID == 0
KnownIDs == {s.id : s \in saveRets} \cup {UnknownID}

NextShare ==
    \/ \E e \in AppExperiments, ok \in BOOLEAN, r \in AppResults : RunExperiment(e, ok, r)
    \/ \E c \in Clients, p \in ClientPairs(issued) : ShareExperiment(c, p.bundle, p.signature)
    \/ \E c \in Clients, dbok \in BOOLEAN : SaveExec(c, dbok)
    \/ \E id \in KnownIDs : SharedExperiment(id)
    \/ \E p \in ClientPairs(issued) : ExportExperiment(p.bundle, p.signature)
    \/ Tick

SpecShare == Init /\ [][NextShare]_vars

\* ======================================================= header validation
\* The 128-bit bitmaps of header.go are written as the sets of their 1 bits.
\* (1<<n - 1) << at has the n bits from at upwards.
BitRun(n, at) == at..(at + n - 1)
\* mask & (1<<64 - 1) and mask >> 64.
Low64(mask) == {b \in mask : b < 64}
High64(mask) == {b - 64 : b \in {x \in mask : x >= 64}}
\* uint64(1) << n, which is zero when n is 64 or more.
ShiftOne(n) == IF n < 64 THEN {n} ELSE {}
\* c - 64 on a byte wraps around.
ByteSub64(c) == (c + 256 - 64) % 256

FieldMask ==
    BitRun(10, 48) \cup BitRun(26, 97) \cup BitRun(26, 65)
      \cup {33, 35, 36, 37, 38, 39, 42, 43, 45, 46, 94, 95, 96, 124, 126}
ValueMask == BitRun(127 - 33, 33) \cup {32} \cup {9}

validHeaderFieldByte(c) ==
    ((ShiftOne(c) \cap Low64(FieldMask))
       \cup (ShiftOne(ByteSub64(c)) \cap High64(FieldMask))) # {}

validHeaderValueByteNoObsText(c) ==
    ((ShiftOne(c) \cap Low64(ValueMask))
       \cup (ShiftOne(ByteSub64(c)) \cap High64(ValueMask))) # {}

validHeaderValueByte(c) ==
    ((ShiftOne(c) \ Low64(ValueMask))
       \cup (ShiftOne(ByteSub64(c)) \ High64(ValueMask))) = {}

ValidHeaderField(field) == \A i \in DOMAIN field : validHeaderFieldByte(field[i])
ValidHeaderValue(value) == \A i \in DOMAIN value : validHeaderValueByte(value[i])

\* ------------------------------------------- the validator specification
\* The validators applied to a byte string: every string of up to
\* MaxScanLen bytes, and the names and values of the examples.
MaxScanLen == 1
AllBytes == 0..255
ContentType == <<67, 111, 110, 116, 101, 110, 116, 45, 84, 121, 112, 101>>
ApplicationJSON ==
    <<97, 112, 112, 108, 105, 99, 97, 116, 105, 111, 110, 47, 106, 115, 111, 110>>
NameWithSpace == <<97, 32, 98>>
ScanStrings ==
    SeqsUpTo(AllBytes, MaxScanLen) \cup {ContentType, ApplicationJSON, NameWithSpace}

InitValidate ==
    /\ InitPipeline
    /\ InitFake
    /\ InitBundleIdle
    /\ InitShareIdle
    /\ InitMakeIdle
    /\ InitLogsIdle
    /\ headerText \in ScanStrings
    /\ validRet = [field |-> FALSE, value |-> FALSE]
    /\ validDone = FALSE

Validate ==
    /\ ~validDone
    /\ validRet' = [field |-> ValidHeaderField(headerText),
                    value |-> ValidHeaderValue(headerText)]
    /\ validDone' = TRUE
    /\ UNCHANGED headerText
    /\ UNCHANGED notValidVars

NextValidate == Validate

SpecValidate == InitValidate /\ [][NextValidate]_vars

\* ========================================================= MakeExperiment
\* experiment.go 19-28.
maxDynamicConfigLength == 10 * 1024
maxURLLength == 1024
maxBodyLength == 1024
maxHeaders == 10
maxHeaderNameLength == 100
maxHeaderValueLength == 200

\* A string of n bytes b.
Repeat(b, n) == [i \in 1..n |-> b]

\* strings.Split(s, sep) for a one-byte separator.
RECURSIVE Split(_, _)
Split(s, sep) ==
    IF \E i \in DOMAIN s : s[i] = sep
      THEN LET i == CHOOSE k \in DOMAIN s : s[k] = sep /\ \A j \in 1..(k - 1) : s[j] # sep
           IN  <<SubSeq(s, 1, i - 1)>> \o Split(SubSeq(s, i + 1, Len(s)), sep)
      ELSE <<s>>

\* strings.TrimSpace on ASCII text: '\t', '\n', '\v', '\f', '\r' and ' '.
IsSpace(b) == b \in {9, 10, 11, 12, 13, 32}
TrimSpace(s) ==
    IF \A i \in DOMAIN s : IsSpace(s[i])
      THEN << >>
      ELSE LET first == CHOOSE i \in DOMAIN s : ~IsSpace(s[i]) /\ \A j \in 1..(i - 1) : IsSpace(s[j])
               last == CHOOSE i \in DOMAIN s : ~IsSpace(s[i]) /\ \A j \in (i + 1)..Len(s) : IsSpace(s[j])
           IN  SubSeq(s, first, last)

\* http.Header.Set stores the value under textproto.CanonicalMIMEHeaderKey
\* of the name: of a name made of token characters the first letter and
\* every letter after a '-' are made upper case, the others lower case.
CanonicalMIMEHeaderKey(name) ==
    IF ~ValidHeaderField(name)
      THEN name
      ELSE [i \in DOMAIN name |->
              LET c == name[i]
                  upper == i = 1 \/ name[i - 1] = 45
              IN  IF upper /\ c \in 97..122 THEN c - 32
                  ELSE IF ~upper /\ c \in 65..90 THEN c + 32
                  ELSE c]
HeaderSet(headers, name, value) ==
    LET key == CanonicalMIMEHeaderKey(name)
    IN  [k \in DOMAIN headers \cup {key} |-> IF k = key THEN <<value>> ELSE headers[k]]

\* parseHeaders, lines 150-195: the loop over the lines, from the headers
\* collected so far.
RECURSIVE ParseHeaderLinesOffByOne(_, _)
ParseHeaderLinesOffByOne(lines, headers) ==
    IF lines = << >> THEN [headers |-> headers, err |-> Nil]
    ELSE LET line == lines[1]
             parts == Split(line, 58)
             name == TrimSpace(parts[1])
             value == TrimSpace(parts[2])
             fail(msg) == [headers |-> << >>, err |-> <<msg>>]
         IN  IF TrimSpace(line) = << >> THEN ParseHeaderLinesOffByOne(Tail(lines), headers)
             ELSE IF Len(parts) # 2 THEN fail("invalid header format")
             ELSE IF name = << >> THEN fail("missing header name")
             ELSE IF value = << >> THEN fail("missing header value")
             ELSE IF Len(name) > maxHeaderNameLength THEN fail("header name is too long")
             ELSE IF Len(value) > maxHeaderValueLength THEN fail("header value is too long")
             ELSE IF ~ValidHeaderField(name) THEN fail("invalid header name")
             ELSE IF ~ValidHeaderValue(value) THEN fail("invalid header value")
             ELSE IF Cardinality(DOMAIN headers) > maxHeaders THEN fail("too many headers (max 10)")
             ELSE ParseHeaderLinesOffByOne(Tail(lines), HeaderSet(headers, name, value))

RECURSIVE ParseHeaderLines(_, _)
ParseHeaderLines(lines, headers) ==
    IF lines = << >> THEN [headers |-> headers, err |-> Nil]
    ELSE LET line == lines[1]
             parts == Split(line, 58)
             name == TrimSpace(parts[1])
             value == TrimSpace(parts[2])
             fail(msg) == [headers |-> << >>, err |-> <<msg>>]
         IN  IF TrimSpace(line) = << >> THEN ParseHeaderLines(Tail(lines), headers)
             ELSE IF Len(parts) # 2 THEN fail("invalid header format")
             ELSE IF name = << >> THEN fail("missing header name")
             ELSE IF value = << >> THEN fail("missing header value")
             ELSE IF Len(name) > maxHeaderNameLength THEN fail("header name is too long")
             ELSE IF Len(value) > maxHeaderValueLength THEN fail("header value is too long")
             ELSE IF ~ValidHeaderField(name) THEN fail("invalid header name")
             ELSE IF ~ValidHeaderValue(value) THEN fail("invalid header value")
             ELSE IF Cardinality(DOMAIN headers) >= maxHeaders THEN fail("too many headers (max 10)")
             ELSE ParseHeaderLines(Tail(lines), HeaderSet(headers, name, value))

parseHeaders(rawHeaders) == ParseHeaderLines(Split(rawHeaders, 10), << >>)

\* url.ParseRequestURI on the URLs of the model: it refuses the empty
\* string and a string that neither starts with '/' nor has a scheme
\* (a letter, then letters, digits, '+', '-', '.', up to a ':').
HasScheme(u) ==
    \E i \in DOMAIN u :
        /\ i > 1
        /\ u[i] = 58
        /\ u[1] \in (65..90) \cup (97..122)
        /\ \A j \in 2..(i - 1) : u[j] \in (65..90) \cup (97..122) \cup (48..57) \cup {43, 45, 46}
ParseRequestURIFails(u) == u = << >> \/ ~(u[1] = 47 \/ HasScheme(u))

\* yaml.Unmarshal into dynamic.Configuration on the configurations of the
\* model: a comment only, which is an empty document, is accepted; a text
\* that opens a flow sequence with '[' and never closes it is refused.
YamlUnmarshalFails(text) == text # << >> /\ text[1] = 91

ZeroHTTPRequest == ZeroExperiment.request
AvailableMethods == {"GET", "POST", "PUT", "DELETE", "PATCH"}

\* MakeHTTPRequest, lines 103-140.
MakeHTTPRequest(method, url, headers, body) ==
    LET fail(msg) == [req |-> ZeroHTTPRequest, err |-> <<msg>>]
        parsed == parseHeaders(headers)
    IN  IF method = "" THEN fail("method is required")
        ELSE IF method \notin AvailableMethods THEN fail("method not allowed")
        ELSE IF url = << >> THEN fail("url is required")
        ELSE IF Len(url) > maxURLLength THEN fail("url is too long")
        ELSE IF Len(body) > maxBodyLength THEN fail("body is too long")
        ELSE IF ParseRequestURIFails(url) THEN fail("url is invalid")
        ELSE IF parsed.err # Nil THEN [req |-> ZeroHTTPRequest, err |-> parsed.err]
        ELSE [req |-> [method |-> method, url |-> url, headers |-> parsed.headers, body |-> body],
              err |-> Nil]

\* MakeExperiment, lines 37-56.
MakeExperimentPartial(dynamicConfig, method, url, headers, body) ==
    LET r == MakeHTTPRequest(method, url, headers, body)
    IN  IF Len(dynamicConfig) > maxDynamicConfigLength
          THEN [exp |-> ZeroExperiment, err |-> <<"dynamic config too long">>]
        ELSE IF YamlUnmarshalFails(dynamicConfig)
          THEN [exp |-> ZeroExperiment, err |-> <<"invalid dynamic configuration", "yaml">>]
        ELSE IF r.err # Nil
          THEN [exp |-> [dynamicConfig |-> dynamicConfig, request |-> r.req],
                err |-> Wrap("request", r.err)]
        ELSE [exp |-> [dynamicConfig |-> dynamicConfig, request |-> r.req], err |-> Nil]

MakeExperiment(dynamicConfig, method, url, headers, body) ==
    LET r == MakeHTTPRequest(method, url, headers, body)
    IN  IF Len(dynamicConfig) > maxDynamicConfigLength
          THEN [exp |-> ZeroExperiment, err |-> <<"dynamic config too long">>]
        ELSE IF YamlUnmarshalFails(dynamicConfig)
          THEN [exp |-> ZeroExperiment, err |-> <<"invalid dynamic configuration", "yaml">>]
        ELSE IF r.err # Nil
          THEN [exp |-> ZeroExperiment, err |-> Wrap("request", r.err)]
        ELSE [exp |-> [dynamicConfig |-> dynamicConfig, request |-> r.req], err |-> Nil]

\* ------------------------------------------ the validation specification
\* The texts of the forms.
NotAURL == <<110, 111, 116, 45, 97, 45, 117, 114, 108>>
HeaderLine(name) == name \o <<58, 32, 118>>
InvalidHeader == <<73, 110, 118, 97, 108, 105, 100>>
RECURSIVE JoinLines(_)
JoinLines(lines) ==
    IF lines = << >> THEN << >>
    ELSE IF Len(lines) = 1 THEN lines[1]
    ELSE lines[1] \o <<10>> \o JoinLines(Tail(lines))

\* Header lines at and over the bounds of the name and of the value, and
\* with a byte the grammar refuses in the name ("a b") and in the value (DEL).
BoundaryHeaders ==
    {HeaderLine(Repeat(97, maxHeaderNameLength)),
     HeaderLine(Repeat(97, maxHeaderNameLength + 1)),
     <<97, 58, 32>> \o Repeat(118, maxHeaderValueLength),
     <<97, 58, 32>> \o Repeat(118, maxHeaderValueLength + 1),
     HeaderLine(<<97, 32, 98>>),
     <<97, 58, 32, 118, 127, 118>>,
     <<97, 58>>,
     <<58, 32, 118>>}

\* Forms in which any of the inputs may be invalid, one way each.
OrderForms ==
    [dynamicConfig : {<<35>>, <<91>>,
                      Repeat(35, maxDynamicConfigLength + 1),
                      Repeat(91, maxDynamicConfigLength + 1)},
     method : {"", "GET", "TRACE"},
     url : {<< >>, ExampleURL, NotAURL,
            ExampleURL \o Repeat(97, maxURLLength + 1 - Len(ExampleURL)),
            Repeat(97, maxURLLength + 1)},
     headers : {<< >>, HeaderLine(<<97>>), InvalidHeader} \cup BoundaryHeaders,
     body : {<< >>, Repeat(97, maxBodyLength), Repeat(97, maxBodyLength + 1)}]

\* Otherwise valid forms whose header block has up to MaxHeaderLines
\* well-formed lines: line i names the i-th lower-case letter, or "A".
MaxHeaderLines == 11
LineName(i, upperA) == IF upperA THEN <<65>> ELSE <<96 + i>>
HeaderBlocks ==
    UNION {{JoinLines([i \in 1..n |-> HeaderLine(LineName(i, i \in S))]) :
                S \in SUBSET (1..n)} : n \in 0..MaxHeaderLines}
HeaderForms ==
    [dynamicConfig : {<<35>>}, method : {"GET"}, url : {ExampleURL},
     headers : HeaderBlocks, body : {<< >>}]

InitMake ==
    /\ InitPipeline
    /\ InitFake
    /\ InitBundleIdle
    /\ InitShareIdle
    /\ InitValidIdle
    /\ InitLogsIdle
    /\ form \in OrderForms \cup HeaderForms
    /\ made = [exp |-> ZeroExperiment, err |-> Nil]
    /\ madeDone = FALSE

\* App.RunExperiment, lines 171-188: the form is given to MakeExperiment.
Make ==
    /\ ~madeDone
    /\ made' = MakeExperiment(form.dynamicConfig, form.method, form.url,
                              form.headers, form.body)
    /\ madeDone' = TRUE
    /\ UNCHANGED form
    /\ UNCHANGED notMakeVars

NextMake == Make

SpecMake == InitMake /\ [][NextMake]_vars

\* =========================================================== ParseRawLogs
\* log.go 15-21: the supported levels, as text.
LogLevelError == <<101, 114, 114, 111, 114>>
LogLevelWarn == <<119, 97, 114, 110, 105, 110, 103>>
LogLevelInfo == <<105, 110, 102, 111>>
LogLevelDebug == <<100, 101, 98, 117, 103>>
LogLevelTrace == <<116, 114, 97, 99, 101>>

\* log.go 37-42: "error", "message", "level", "time".
KeyError == <<101, 114, 114, 111, 114>>
KeyMessage == <<109, 101, 115, 115, 97, 103, 101>>
KeyLevel == <<108, 101, 118, 101, 108>>
KeyTime == <<116, 105, 109, 101>>
excludedKeys == {KeyError, KeyMessage, KeyLevel, KeyTime}

\* json.Unmarshal([]byte(rawLine), &line), line a map[string]interface{},
\* on the JSON of the model: strings without escapes, unsigned integers,
\* null, and objects of these.  The text is cut into tokens first.
IsDigit(b) == b \in 48..57
JSONNull == <<110, 117, 108, 108>>
Token(t, v) == [t |-> t, v |-> v]
RECURSIVE Tokens(_)
Tokens(s) ==
    IF s = << >> THEN << >>
    ELSE IF s[1] \in {32, 9, 10, 13} THEN Tokens(Tail(s))
    ELSE IF s[1] \in {123, 125, 58, 44}
      THEN <<Token("punct", <<s[1]>>)>> \o Tokens(Tail(s))
    ELSE IF s[1] = 34
      THEN IF \E j \in 2..Len(s) : s[j] = 34
             THEN LET j == CHOOSE k \in 2..Len(s) :
                               s[k] = 34 /\ \A i \in 2..(k - 1) : s[i] # 34
                  IN  <<Token("string", SubSeq(s, 2, j - 1))>> \o Tokens(SubSeq(s, j + 1, Len(s)))
             ELSE <<Token("invalid", << >>)>>
    ELSE IF IsDigit(s[1])
      THEN LET n == CHOOSE k \in 1..Len(s) :
                        /\ \A i \in 1..k : IsDigit(s[i])
                        /\ k = Len(s) \/ ~IsDigit(s[k + 1])
           IN  <<Token("number", SubSeq(s, 1, n))>> \o Tokens(SubSeq(s, n + 1, Len(s)))
    ELSE IF Len(s) >= 4 /\ SubSeq(s, 1, 4) = JSONNull
      THEN <<Token("null", << >>)>> \o Tokens(SubSeq(s, 5, Len(s)))
    ELSE <<Token("invalid", << >>)>>

\* The Go value a scalar token decodes to.
GoValue(tok) ==
    IF tok.t = "string" THEN [type |-> "string", v |-> tok.v]
    ELSE IF tok.t = "number" THEN [type |-> "float64", v |-> tok.v]
    ELSE [type |-> "nil", v |-> << >>]

\* The members of an object, after its '{' and before its '}'; a key that
\* is repeated keeps its last value.
RECURSIVE Members(_, _)
Members(toks, m) ==
    IF /\ Len(toks) >= 3
       /\ toks[1].t = "string"
       /\ toks[2] = Token("punct", <<58>>)
       /\ toks[3].t \in {"string", "number", "null"}
      THEN LET key == toks[1].v
               m2 == [k \in DOMAIN m \cup {key} |-> IF k = key THEN GoValue(toks[3]) ELSE m[k]]
               rest == SubSeq(toks, 4, Len(toks))
           IN  IF rest = << >> THEN [ok |-> TRUE, line |-> m2]
               ELSE IF rest[1] = Token("punct", <<44>>) THEN Members(Tail(rest), m2)
               ELSE [ok |-> FALSE, line |-> << >>]
      ELSE [ok |-> FALSE, line |-> << >>]

\* ok is false when json.Unmarshal returns an error; line is the map, which
\* stays nil (without keys) for the JSON text null.
UnmarshalLine(rawLine) ==
    LET toks == Tokens(rawLine)
        n == Len(toks)
    IN  IF toks = <<Token("null", << >>)>> THEN [ok |-> TRUE, line |-> << >>]
        ELSE IF n >= 2 /\ toks[1] = Token("punct", <<123>>) /\ toks[n] = Token("punct", <<125>>)
          THEN IF n = 2 THEN [ok |-> TRUE, line |-> << >>]
               ELSE Members(SubSeq(toks, 2, n - 1), << >>)
        ELSE [ok |-> FALSE, line |-> << >>]

\* extractString, lines 85-93.
extractString(data, key) ==
    IF key \in DOMAIN data /\ data[key].type = "string" THEN data[key].v ELSE << >>

\* extractLogLevel, lines 95-108.
extractLogLevel(data, key) ==
    IF /\ key \in DOMAIN data
       /\ data[key].type = "string"
       /\ data[key].v \in {LogLevelError, LogLevelWarn, LogLevelInfo, LogLevelDebug, LogLevelTrace}
      THEN [level |-> data[key].v, err |-> Nil]
      ELSE [level |-> LogLevelError, err |-> <<"invalid log level">>]

\* A Log; Fields is a map that may be nil.
NilFields == [isNil |-> TRUE, entries |-> << >>]
MessageLog(rawLine) ==
    [message |-> rawLine, timestamp |-> << >>, level |-> << >>, error |-> << >>,
     fields |-> NilFields]

\* Lines 66-71: the keys of the line that are not excluded.
CollectFieldsAll(line) == line
CollectFields(line) == [k \in DOMAIN line \ excludedKeys |-> line[k]]

\* Lines 44-80: the loop over the raw lines.
RECURSIVE ParseLines(_)
ParseLines(rawLines) ==
    IF rawLines = << >> THEN << >>
    ELSE LET rawLine == TrimSpace(rawLines[1])
             u == UnmarshalLine(rawLine)
             lvl == extractLogLevel(u.line, KeyLevel)
         IN  IF rawLine = << >> THEN ParseLines(Tail(rawLines))
             ELSE IF ~u.ok THEN <<MessageLog(rawLine)>> \o ParseLines(Tail(rawLines))
             ELSE IF lvl.err # Nil THEN <<MessageLog(rawLine)>> \o ParseLines(Tail(rawLines))
             ELSE <<[timestamp |-> extractString(u.line, KeyTime),
                     message |-> extractString(u.line, KeyMessage),
                     error |-> extractString(u.line, KeyError),
                     level |-> lvl.level,
                     fields |-> [isNil |-> FALSE, entries |-> CollectFields(u.line)]]>>
                  \o ParseLines(Tail(rawLines))

\* ParseRawLogs, lines 34-83.
ParseRawLogs(raw) == ParseLines(Split(raw, 10))

\* ------------------------------------------------ the log specification
\* The JSON text of an object whose members are <<key, value text>> pairs.
RECURSIVE JSONMembers(_)
JSONMembers(ms) ==
    IF ms = << >> THEN << >>
    ELSE Quote(ms[1][1]) \o <<58>> \o ms[1][2]
         \o (IF Len(ms) > 1 THEN <<44>> ELSE << >>) \o JSONMembers(Tail(ms))
JSONObject(ms) == <<123>> \o JSONMembers(ms) \o <<125>>

\* The stderr lines of the model: blank, plain text, JSON that is not an
\* object, malformed JSON, and objects with and without a supported level.
PlainText == <<116, 101, 120, 116>>
LogLines ==
    {<< >>,
     <<32>>,
     PlainText,
     <<32>> \o PlainText \o <<32, 13>>,
     <<52, 50>>,
     JSONNull,
     Quote(LogLevelInfo),
     <<123>> \o Quote(KeyLevel) \o <<58>> \o Quote(LogLevelInfo),
     JSONObject(<<<<KeyLevel, Quote(LogLevelInfo)>>>>) \o <<32>> \o PlainText,
     JSONObject(<< >>),
     JSONObject(<<<<KeyLevel, Quote(LogLevelInfo)>>>>),
     JSONObject(<<<<KeyLevel, Quote(<<119, 97, 114, 110>>)>>>>),
     JSONObject(<<<<KeyLevel, <<52, 50>>>>>>),
     JSONObject(<<<<KeyMessage, Quote(<<109>>)>>>>),
     JSONObject(<<<<KeyLevel, Quote(LogLevelError)>>, <<KeyTime, Quote(<<116>>)>>,
                  <<KeyMessage, Quote(<<109>>)>>, <<KeyError, Quote(<<101>>)>>>>),
     JSONObject(<<<<KeyLevel, Quote(LogLevelDebug)>>, <<KeyMessage, Quote(<<109>>)>>,
                  <<<<120>>, Quote(<<118>>)>>, <<<<110>>, <<52, 50>>>>>>),
     JSONObject(<<<<KeyLevel, Quote(LogLevelWarn)>>, <<KeyTime, <<52, 50>>>>,
                  <<KeyMessage, JSONNull>>, <<<<120>>, JSONNull>>>>),
     JSONObject(<<<<KeyLevel, Quote(LogLevelInfo)>>, <<KeyLevel, Quote(<<119, 97, 114, 110>>)>>>>),
     <<32, 123, 32>> \o Quote(KeyLevel) \o <<32, 58, 32>> \o Quote(LogLevelTrace) \o <<32, 125, 13>>}

MaxLogLines == 2
RawLogs == {JoinLines(ls) : ls \in SeqsUpTo(LogLines, MaxLogLines)}

InitLogs ==
    /\ InitPipeline
    /\ InitFake
    /\ InitBundleIdle
    /\ InitShareIdle
    /\ InitValidIdle
    /\ InitMakeIdle
    /\ rawLogs \in RawLogs
    /\ parsedLogs = << >>
    /\ logsDone = FALSE

\* Command.Result: the stderr of the evaluator is parsed.
ParseLogs ==
    /\ ~logsDone
    /\ parsedLogs' = ParseRawLogs(rawLogs)
    /\ logsDone' = TRUE
    /\ UNCHANGED rawLogs
    /\ UNCHANGED notLogVars

NextLogs == ParseLogs

SpecLogs == InitLogs /\ [][NextLogs]_vars

\* ============================================== requests that are refused
\* One /run request with the form values `form`, and /share and /export
\* requests with the pair (bundle, signature), are served from the state
\* after construction.  Either the form or the pair is what a client
\* filled in; the other is left empty, and an empty form or pair is
\* refused like any other invalid one.
RequestForms ==
    {f \in OrderForms :
        /\ f.dynamicConfig \in {<<35>>, <<91>>}
        /\ f.method \in {"GET", "TRACE"}
        /\ f.url \in {ExampleURL, NotAURL}
        /\ f.headers \in {<< >>, InvalidHeader}
        /\ f.body \in {<< >>, Repeat(97, maxBodyLength + 1)}}
RenderedPairs ==
    {[bundle |-> marshalRunBundle(e, r, ServerKey).bundle,
      signature |-> marshalRunBundle(e, r, ServerKey).signature] :
        e \in AppExperiments, r \in AppResults}
RequestPairs == ClientPairs(RenderedPairs)

InitRequests ==
    /\ InitPipeline
    /\ InitFake
    /\ InitShareIdle
    /\ InitValidIdle
    /\ InitLogsIdle
    /\ exp = ZeroExperiment
    /\ res = ZeroRunResult
    /\ secretKey = ServerKey
    /\ tampered = "no"
    /\ unmarshalRet = NoUnmarshal
    /\ step = "idle"
    /\ calls = << >>
    /\ made = [exp |-> ZeroExperiment, err |-> Nil]
    /\ madeDone = FALSE
    /\ \/ /\ form \in RequestForms
          /\ bundle = << >>
          /\ signature = NoSignature
       \/ /\ form = [dynamicConfig |-> << >>, method |-> "", url |-> << >>,
                     headers |-> << >>, body |-> << >>]
          /\ \E p \in RequestPairs : bundle = p.bundle /\ signature = p.signature

\* App.RunExperiment, lines 178-190: after MakeExperiment returned, the
\* handler returns on an error and calls Controller.Run otherwise, which
\* enters WorkerPool.Spawn.
RunAcceptedUnchecked(p) ==
    /\ madeDone
    /\ Admit(p)

RunAccepted(p) ==
    /\ madeDone
    /\ made.err = Nil
    /\ Admit(p)

NextRequests ==
    \/ Make
    \/ \E p \in Runners :
        \/ RunAccepted(p)
        \/ Select(p)
        \/ Dec(p)
        \/ \E f \in StartFaults : ExecStart(p, f)
        \/ \E ok \in BOOLEAN : ExecWrite(p, ok)
        \/ \E ok \in BOOLEAN : ExecClose(p, ok)
        \/ \E w \in {"ok", "ctx", "io"}, out \in StdoutContents : ExecWait(p, w, out)
        \/ \E code \in ExitCodes : ProcExit(p, code)
        \/ TimeoutFire(p)
        \/ Kill(p)
        \/ \E e \in CtxErrs : CtxFire(p, e)
        \/ /\ pc[p] = "returned"
           /\ RunFinish(p)
    \/ \E c \in Clients : ShareExperiment(c, bundle, signature)
    \/ \E c \in Clients, dbok \in BOOLEAN : SaveExec(c, dbok)
    \/ ExportExperiment(bundle, signature)

SpecRequests == InitRequests /\ [][NextRequests]_vars

\* ================================================= the fake Traefik
Range(q) == {q[i] : i \in 1 .. Len(q)}

\* ServerInjector.Inject: a copy of the configuration with the whoami
\* service added to its services.
Inject(config) == [dynamic |-> config, services |-> {"whoami@playground"}]

\* buildHandlers: one handler for every entry point of the static
\* configuration, which holds httpEntrypoint alone; the handler routes by
\* the configuration it was built from.
buildHandlers(dynamicConfig) == [e \in {httpEntrypoint} |-> dynamicConfig]

\* Traefik.Send, for the handlers it reads.
Send(h) ==
    IF httpEntrypoint \notin DOMAIN h
    THEN [res |-> Nil, err |-> <<"no handler for entrypoint", httpEntrypoint>>]
    ELSE [res |-> <<"served", h[httpEntrypoint]>>, err |-> Nil]

\* OnReady appends to readyFuncs.  The callers register their functions
\* between NewTraefik and Start.
OnReady(f) ==
    /\ tpc = "new"
    /\ f \notin Range(readyFuncs)
    /\ readyFuncs' = Append(readyFuncs, f)
    /\ UNCHANGED <<tpc, handlers, handlerMu, firstConfigurationReceived, lpc, built, ri,
                   delivered, invoked, readySend, sendRet>>
    /\ UNCHANGED notFakeVars

\* Start: the listener is added with its flag unset and the watcher started.
Start ==
    /\ tpc = "new"
    /\ tpc' = "started"
    /\ firstConfigurationReceived' = FALSE
    /\ UNCHANGED <<readyFuncs, handlers, handlerMu, lpc, built, ri, delivered, invoked,
                   readySend, sendRet>>
    /\ UNCHANGED notFakeVars

\* Start returns the error of NewSyntaxParser or AddProvider: no listener.
StartFails ==
    /\ tpc = "new"
    /\ tpc' = "failed"
    /\ UNCHANGED <<readyFuncs, handlers, handlerMu, firstConfigurationReceived, lpc, built,
                   ri, delivered, invoked, readySend, sendRet>>
    /\ UNCHANGED notFakeVars

\* The watcher calls the listener with a configuration; the listener
\* injects the servers and builds the handlers before it takes the lock.
Listener(config) ==
    /\ tpc = "started"
    /\ lpc = "idle"
    /\ Len(delivered) < MaxConfigurations
    /\ delivered' = Append(delivered, config)
    /\ built' = buildHandlers(Inject(config))
    /\ lpc' = "lock"
    /\ UNCHANGED <<tpc, readyFuncs, handlers, handlerMu, firstConfigurationReceived, ri,
                   invoked, readySend, sendRet>>
    /\ UNCHANGED notFakeVars

\* t.handlerMu.Lock()
ListenerLock ==
    /\ lpc = "lock"
    /\ ~handlerMu
    /\ handlerMu' = TRUE
    /\ lpc' = "install"
    /\ UNCHANGED <<tpc, readyFuncs, handlers, firstConfigurationReceived, built, ri,
                   delivered, invoked, readySend, sendRet>>
    /\ UNCHANGED notFakeVars

\* t.handlers = handlers, then the test of the flag.
ListenerInstall ==
    /\ lpc = "install"
    /\ handlers' = built
    /\ IF firstConfigurationReceived
       THEN lpc' = "unlock" /\ ri' = ri
       ELSE lpc' = "ready" /\ ri' = 1
    /\ UNCHANGED <<tpc, readyFuncs, handlerMu, firstConfigurationReceived, built,
                   delivered, invoked, readySend, sendRet>>
    /\ UNCHANGED notFakeVars

\* One turn of the range over readyFuncs: the ready function is called, and
\* it sends its request to the instance.
ListenerReady ==
    /\ lpc = "ready"
    /\ ri <= Len(readyFuncs)
    /\ invoked' = [invoked EXCEPT ![readyFuncs[ri]] = @ + 1]
    /\ readySend' = [readySend EXCEPT ![readyFuncs[ri]] = Send(handlers)]
    /\ ri' = ri + 1
    /\ UNCHANGED <<tpc, readyFuncs, handlers, handlerMu, firstConfigurationReceived, lpc,
                   built, delivered, sendRet>>
    /\ UNCHANGED notFakeVars

\* A listener that forgets it has received its first configuration.
ListenerFirstForgets ==
    /\ lpc = "ready"
    /\ ri > Len(readyFuncs)
    /\ lpc' = "unlock"
    /\ ri' = 0
    /\ UNCHANGED <<tpc, readyFuncs, handlers, handlerMu, firstConfigurationReceived, built,
                   delivered, invoked, readySend, sendRet>>
    /\ UNCHANGED notFakeVars
\* The range is over: firstConfigurationReceived = true.
ListenerFirst ==
    /\ lpc = "ready"
    /\ ri > Len(readyFuncs)
    /\ firstConfigurationReceived' = TRUE
    /\ lpc' = "unlock"
    /\ ri' = 0
    /\ UNCHANGED <<tpc, readyFuncs, handlers, handlerMu, built, delivered, invoked,
                   readySend, sendRet>>
    /\ UNCHANGED notFakeVars

\* t.handlerMu.Unlock()
ListenerUnlock ==
    /\ lpc = "unlock"
    /\ handlerMu' = FALSE
    /\ lpc' = "idle"
    /\ UNCHANGED <<tpc, readyFuncs, handlers, firstConfigurationReceived, built, ri,
                   delivered, invoked, readySend, sendRet>>
    /\ UNCHANGED notFakeVars

\* The caller sends a request.  Send reads t.handlers without the lock; the
\* map is one word, so the read sees the map of before or of after a
\* concurrent assignment, and both orders are steps here.
SendRequest ==
    /\ sendRet' = Send(handlers)
    /\ UNCHANGED <<tpc, readyFuncs, handlers, handlerMu, firstConfigurationReceived, lpc,
                   built, ri, delivered, invoked, readySend>>
    /\ UNCHANGED notFakeVars

NextFake ==
    \/ \E f \in ReadyFuncs : OnReady(f)
    \/ Start
    \/ StartFails
    \/ \E config \in Configurations : Listener(config)
    \/ ListenerLock
    \/ ListenerInstall
    \/ ListenerReady
    \/ ListenerFirst
    \/ ListenerUnlock
    \/ SendRequest

SpecFake == Init /\ [][NextFake]_vars

\* ================================================================ claims
InExec(p) == pc[p] \in {"exec", "write", "close", "wait"}
HoldsPermit(p) == InExec(p) \/ (pc[p] = "dec" /\ err[p] = Nil)
InSpawn(p) == pc[p] \in {"select", "dec"} \/ InExec(p)
Returned(p) == pc[p] \in {"returned", "done"}

\* C1: at most MaxSlots commands have their Exec in progress through Spawn.
C1_ConcurrencyBound ==
    Cardinality({p \in Ids : InExec(p)}) <= MaxSlots

\* C1 witness: every slot is busy while another admitted caller is blocked.
C1_Witness ==
    /\ Cardinality({p \in Ids : InExec(p)}) = MaxSlots
    /\ spawnSlots = 0
    /\ \E p \in Ids : pc[p] = "select" /\ ctx[p] = "live"

\* C2: permit conservation.  The free permits and the permits held by callers
\* always add up to MaxSlots, and once every call has returned all MaxSlots
\* permits are free again.
C2_PermitConservation ==
    /\ spawnSlots + Cardinality({p \in Ids : HoldsPermit(p)}) = MaxSlots
    /\ (\A p \in Ids : ~InSpawn(p)) => spawnSlots = MaxSlots

\* C2 witness: every call has returned, among them a rejected one, a waiter
\* that was cancelled, and one whose command failed.
C2_Witness ==
    /\ \A p \in Callers : pc[p] = "returned"
    /\ \E p \in Callers : spawnRet[p] = ErrQueueFull
    /\ \E p \in Callers : admitted[p] /\ ~executed[p]
    /\ \E p \in Callers : executed[p] /\ spawnRet[p] = <<"command failed">>
    /\ spawnSlots = MaxSlots

\* C3 as stated: waitQueueDepth counts exactly the admitted callers whose
\* wait is not yet resolved (still in the select), within its bound.
C3_Original ==
    /\ waitQueueDepth = Cardinality({p \in Ids : pc[p] = "select"})
    /\ 0 <= waitQueueDepth
    /\ waitQueueDepth <= MaxWaitQueueDepth

\* C3 amended: waitQueueDepth counts the admitted callers that have not yet
\* executed the decrement following their select (still waiting, or already
\* resolved but not yet decremented), and stays within 0..MaxWaitQueueDepth.
C3_WaitDepth ==
    /\ waitQueueDepth = Cardinality({p \in Ids : pc[p] \in {"select", "dec"}})
    /\ 0 <= waitQueueDepth
    /\ waitQueueDepth <= MaxWaitQueueDepth

\* C3 witness: the queue is full, one counted caller already holds a permit,
\* and a further caller is about to run the admission test.
C3_Witness ==
    /\ waitQueueDepth = MaxWaitQueueDepth
    /\ \E p \in Ids : pc[p] = "dec" /\ err[p] = Nil
    /\ \E p \in Ids : pc[p] = "idle"

\* C4: a call that finds the queue full returns in that step with the
\* queue-full error (matching DeadlineExceeded), without calling Exec, and
\* leaves waitQueueDepth and the free permits unchanged.
C4_QueueFullRejects ==
    [][\A p \in Ids :
          (pc[p] = "idle" /\ pc'[p] # "idle" /\ waitQueueDepth >= MaxWaitQueueDepth)
          => /\ pc'[p] = "returned"
             /\ spawnRet'[p] = ErrQueueFull
             /\ ErrIs(spawnRet'[p], "DeadlineExceeded")
             /\ ~executed'[p]
             /\ ~admitted'[p]
             /\ waitQueueDepth' = waitQueueDepth
             /\ spawnSlots' = spawnSlots]_vars

\* C4 witness: a call was rejected while a permit was free.
C4_Witness ==
    \E p \in Ids :
        /\ pc[p] = "returned"
        /\ spawnRet[p] = ErrQueueFull
        /\ ~admitted[p]
        /\ waitQueueDepth = MaxWaitQueueDepth

\* C5 as stated: when the context is already done at the select, Spawn
\* takes the cancellation branch whether or not a permit is free: it keeps
\* the context's error, consumes no permit and will not call Exec.
C5_CancelledNeverRuns ==
    [][\A p \in Ids :
          (pc[p] = "select" /\ ctx[p] # "live" /\ pc'[p] # "select")
          => /\ err'[p] = <<ctx[p]>>
             /\ spawnSlots' = spawnSlots]_vars

\* C6 as stated: with no context cancelled and at most
\* MaxSlots + MaxWaitQueueDepth calls in flight (the arriving one included),
\* an arriving call is not rejected with the queue-full error.
C6_NoRejectionWithinCapacity ==
    [][\A p \in Ids :
          (/\ pc[p] = "idle" /\ pc'[p] # "idle"
           /\ \A q \in Ids : ctx[q] = "live"
           /\ Cardinality({q \in Ids : InSpawn(q)}) + 1 <= MaxSlots + MaxWaitQueueDepth)
          => pc'[p] = "select"]_vars

\* C7: a call that passed the admission test and returned without running
\* its command returned its own context's error, and that context was done;
\* it is never given the queue-full error.
C7_AdmittedNeverQueueFull ==
    \A p \in Ids :
        (admitted[p] /\ pc[p] = "returned" /\ ~executed[p])
        => /\ ctx[p] # "live"
           /\ spawnRet[p] = <<ctx[p]>>
           /\ spawnRet[p] # ErrQueueFull

\* C7 witness: an admitted waiter returned its context's error while another
\* caller was rejected and a third was running.
C7_Witness ==
    \E p, q, r \in Ids :
        /\ admitted[p] /\ pc[p] = "returned" /\ ~executed[p]
        /\ pc[q] = "returned" /\ spawnRet[q] = ErrQueueFull
        /\ InExec(r)

\* C8 as stated: when the process was killed because the context was done,
\* Exec returns an error matching DeadlineExceeded or Canceled, and
\* Controller.Run reports ErrRunTimeout.
C8_KillReportsCancellation ==
    \A p \in Runners :
        (proc[p] = "killed" /\ waited[p])
        => /\ pc[p] = "returned" => IsCancellation(spawnRet[p])
           /\ pc[p] = "done" => result[p].err = <<"ErrRunTimeout">>

\* C9: after a process that exited by itself with a nonzero status was
\* waited for, Exec has returned nil and stderr ends with the diagnostic for
\* that status, after the captured output; a failure of the pipe, of the
\* start, of the write or close of stdin, or a non-exit Wait error makes
\* Exec return a non-nil error.
C9_ExitIsSoftIOIsFatal ==
    \A p \in Runners :
        (pc[p] = "returned" /\ executed[p])
        => /\ (waited[p] /\ proc[p] = "exited" /\ exitCode[p] # 0)
              => /\ spawnRet[p] = Nil
                 /\ stderr[p] = ProcStderr \o <<Line("command failed with status", exitCode[p])>>
                 /\ stdout[p] \in StdoutContents
           /\ fault[p] \in {"pipe", "start", "write", "close", "wait"}
              => spawnRet[p] # Nil

\* C9 witness: a process exited with status 1 and Exec returned nil.
C9_Witness ==
    \E p \in Runners :
        /\ pc[p] = "returned" /\ waited[p]
        /\ proc[p] = "exited" /\ exitCode[p] = 1
        /\ spawnRet[p] = Nil
        /\ Len(stderr[p]) = 2

\* C10: Controller.Run returns ErrRunTimeout exactly when the runner's error
\* matches DeadlineExceeded or Canceled; any other runner error comes back
\* wrapped and does not match ErrRunTimeout; with a runner error the Result
\* is the zero Result, and a non-zero Result comes only without runner error.
C10_RunTimeoutNormalisation ==
    \A p \in Runners :
        pc[p] = "done"
        => /\ ErrIs(result[p].err, "ErrRunTimeout") <=> IsCancellation(runRet[p])
           /\ IsCancellation(runRet[p]) => result[p].err = <<"ErrRunTimeout">>
           /\ (runRet[p] # Nil /\ ~IsCancellation(runRet[p]))
              => result[p].err = Wrap("running Traefik experiment", runRet[p])
           /\ runRet[p] # Nil => result[p].res = ZeroResult
           /\ result[p].res # ZeroResult => (runRet[p] = Nil /\ result[p].err = Nil)

\* C10 witness: a cancelled waiter was reported as ErrRunTimeout.
C10_Witness ==
    \E p \in Runners :
        /\ pc[p] = "done"
        /\ admitted[p] /\ ~executed[p]
        /\ ErrIs(runRet[p], "Canceled")
        /\ result[p] = [res |-> ZeroResult, err |-> <<"ErrRunTimeout">>]

\* C11: unmarshalRunBundle applied, with the same key, to the untouched pair
\* returned by marshalRunBundle(exp, res, key) succeeds and returns (exp, res).
C11_RoundTrip ==
    (step = "unmarshaled" /\ tampered = "no")
        => unmarshalRet = [exp |-> exp, res |-> res, err |-> Nil]

\* C12: after one byte of the encoded bundle or of the signature was
\* changed, unmarshalRunBundle fails with the invalid signature error and
\* returns no experiment and no result.
C12_TamperDetected ==
    (step = "unmarshaled" /\ tampered # "no")
        => unmarshalRet = [exp |-> ZeroExperiment, res |-> ZeroRunResult,
                           err |-> ErrInvalidSignature]

\* The experiment and result a row of the table holds.
RowContent(row) ==
    [exp |-> [dynamicConfig |-> row.dynamicConfig, request |-> row.request],
     res |-> row.result]
\* The server rendered a signature, under its key, of the text of (e, r).
ServerSigned(e, r) ==
    \E p \in issued :
        /\ p.signature.key = ServerKey
        /\ p.signature.changed = << >>
        /\ jsonUnmarshal(p.signature.data) = [b |-> [experiment |-> e, result |-> r], err |-> Nil]
\* (e, r) is what a bundle of a successful run decodes to.
FromRun(e, r) ==
    \E x \in ran : RunBundleDoc(x.exp, x.res) = [experiment |-> e, result |-> r]

\* C13: Store.Save is called only with an (experiment, result) pair decoded
\* from a bundle the server signed under its key, so the content of every
\* call, of every returned Save and of every row was signed by the server
\* and stems from a successful run.
C13_OnlySignedContentStored ==
    /\ \A c \in Clients :
           hpc[c] = "save" =>
               ServerSigned(local[c].exp, local[c].res) /\ FromRun(local[c].exp, local[c].res)
    /\ \A s \in saveRets : ServerSigned(s.exp, s.res) /\ FromRun(s.exp, s.res)
    /\ \A row \in rows :
           /\ ServerSigned(RowContent(row).exp, RowContent(row).res)
           /\ FromRun(RowContent(row).exp, RowContent(row).res)

\* C13 witness: a row is stored and the last /share request, sent while the
\* client held a signed pair, was refused.
C13_Witness ==
    /\ rows # {}
    /\ issued # {}
    /\ response.handler = "share"
    /\ response.status = 400

\* C14: the table holds at most one row per hash, and every Save that
\* returned gave the public id of the one row holding the hash of its content.
C14_Dedup ==
    /\ \A r1 \in rows, r2 \in rows : r1.hash = r2.hash => r1 = r2
    /\ \A s \in saveRets :
           \E row \in rows : row.hash = Hash(s.exp, s.res) /\ row.publicId = s.id
    /\ \A s1 \in saveRets, s2 \in saveRets :
           Hash(s1.exp, s1.res) = Hash(s2.exp, s2.res) => s1.id = s2.id

\* C14 witness: a Save of one client returned the public id of the row that
\* the other client inserted.
C14_Witness ==
    /\ response.handler = "share"
    /\ response.status = 303
    /\ \E row \in rows : row.publicId = response.id /\ row.clientIP # response.client

\* C15: a Save whose hash is already in the table leaves the table as it is:
\* no column of the existing row changes and no row is added.
C15_ConflictChangesNothing ==
    [][\A c \in Clients :
          (/\ hpc[c] = "save"
           /\ hpc'[c] = "idle"
           /\ \E row \in rows : row.hash = Hash(local[c].exp, local[c].res))
              => rows' = rows]_vars

\* C15 witness: a Save of another client, made after the row was created,
\* returned the id of the row.
C15_Witness ==
    /\ response.handler = "share"
    /\ response.status = 303
    /\ \E row \in rows :
           /\ row.publicId = response.id
           /\ row.clientIP # response.client
           /\ row.createdAt < now

\* C16: a Get of a public id that a Save returned succeeds and returns the
\* experiment and result given to that Save.
C16_GetReturnsSaved ==
    (response.handler = "shared" /\ \E s \in saveRets : s.id = response.id)
        => /\ response.status = 200
           /\ \A s \in saveRets :
                  s.id = response.id => (response.exp = s.exp /\ response.res = s.res)

\* C16 witness: two contents are stored, both were read before, and the
\* last Get returned the one saved last.
C16_Witness ==
    /\ Cardinality(rows) = 2
    /\ \A row \in rows : row.lastRetrievedAt # << >>
    /\ response.handler = "shared"
    /\ response.status = 200
    /\ \A row \in rows : row.publicId <= response.id

\* The characters of the claim: a token character is an ASCII letter, a
\* digit or one of ! # $ % & ' * + - . ^ _ ` | ~; a value character is
\* visible ASCII, space, tab or a byte from 0x80 to 0xFF.
IsTokenChar(b) ==
    \/ b \in 65..90 \/ b \in 97..122
    \/ b \in 48..57
    \/ b \in {33, 35, 36, 37, 38, 39, 42, 43, 45, 46, 94, 95, 96, 124, 126}
IsValueChar(b) == b \in 33..126 \/ b = 32 \/ b = 9 \/ b \in 128..255
IsOtherControl(b) == b \in 0..8 \/ b \in 10..31 \/ b = 127

\* C19: ValidHeaderField(s) is true iff every byte of s is a token
\* character and ValidHeaderValue(s) is true iff every byte of s is a value
\* character; "Content-Type" and "application/json" are accepted, a name
\* with a space and a value with another control byte are rejected.
C19_HeaderGrammar ==
    validDone =>
        /\ validRet.field = (\A i \in DOMAIN headerText : IsTokenChar(headerText[i]))
        /\ validRet.value = (\A i \in DOMAIN headerText : IsValueChar(headerText[i]))
        /\ headerText = ContentType => validRet.field
        /\ headerText = ApplicationJSON => validRet.value
        /\ headerText = NameWithSpace => ~validRet.field
        /\ (\E i \in DOMAIN headerText : IsOtherControl(headerText[i])) => ~validRet.value

\* C19 witness: a byte above 0x7F was validated; it is accepted in a value
\* and rejected in a name.
C19_Witness ==
    /\ validDone
    /\ headerText = <<255>>
    /\ validRet.value
    /\ ~validRet.field

\* ---------------------------------------------------------------- C17
\* The first violation of a form in the order the claim gives: configuration
\* length, configuration grammar, method, url non-empty, url length, url
\* parseable, body length, header block.
C17_FirstViolation(f) ==
    LET parsed == parseHeaders(f.headers)
    IN  IF Len(f.dynamicConfig) > maxDynamicConfigLength THEN <<"dynamic config too long">>
        ELSE IF YamlUnmarshalFails(f.dynamicConfig) THEN <<"invalid dynamic configuration", "yaml">>
        ELSE IF f.method = "" THEN Wrap("request", <<"method is required">>)
        ELSE IF f.method \notin AvailableMethods THEN Wrap("request", <<"method not allowed">>)
        ELSE IF f.url = << >> THEN Wrap("request", <<"url is required">>)
        ELSE IF Len(f.url) > maxURLLength THEN Wrap("request", <<"url is too long">>)
        ELSE IF ParseRequestURIFails(f.url) THEN Wrap("request", <<"url is invalid">>)
        ELSE IF Len(f.body) > maxBodyLength THEN Wrap("request", <<"body is too long">>)
        ELSE IF parsed.err # Nil THEN Wrap("request", parsed.err)
        ELSE Nil

\* C17: MakeExperiment returns the error of the earliest failing check in
\* the order configuration length, configuration grammar, method in the
\* allow-list, url non-empty, url length, url parseable, body length,
\* header block; it returns no error when no check fails.
C17_ErrorOrder == madeDone => made.err = C17_FirstViolation(form)

\* ---------------------------------------------------------------- C18
\* The names of the header lines of the form, in order.
C18_LineNames ==
    IF form.headers = << >> THEN << >>
    ELSE LET lines == Split(form.headers, 10)
         IN  [i \in 1..Len(lines) |-> TrimSpace(Split(lines[i], 58)[1])]
C18_DistinctNames ==
    \A i, j \in DOMAIN C18_LineNames : i # j => C18_LineNames[i] # C18_LineNames[j]
C18_DistinctKeys ==
    \A i, j \in DOMAIN C18_LineNames :
        i # j => CanonicalMIMEHeaderKey(C18_LineNames[i]) # CanonicalMIMEHeaderKey(C18_LineNames[j])
C18_TooMany == Wrap("request", <<"too many headers (max 10)">>)

C20_NonBlank(l) == l # << >>
C20_Lines ==
    LET rawLines == Split(rawLogs, 10)
    IN  SelectSeq([i \in DOMAIN rawLines |-> TrimSpace(rawLines[i])], C20_NonBlank)
\* The line is a JSON object whose level is one of the supported levels.
C20_Parseable(l) ==
    LET u == UnmarshalLine(l)
    IN  /\ u.ok
        /\ l[1] = 123
        /\ KeyLevel \in DOMAIN u.line
        /\ u.line[KeyLevel].type = "string"
        /\ u.line[KeyLevel].v \in
              {LogLevelError, LogLevelWarn, LogLevelInfo, LogLevelDebug, LogLevelTrace}
\* The string under a key of the object; empty when the key is absent or
\* its value is not a string.
C20_StringAt(o, key) ==
    IF key \in DOMAIN o /\ o[key].type = "string" THEN o[key].v ELSE << >>

\* C20: ParseRawLogs returns one Log per non-blank line, in input order; a
\* line that is not a JSON object, or whose level is not a supported one,
\* gives a Log with only Message set, to the trimmed line; any other line
\* gives Timestamp, Message, Error and Level from the keys time, message,
\* error and level, and Fields with exactly the remaining keys.
C20_ParsedLogs ==
    logsDone =>
        /\ Len(parsedLogs) = Len(C20_Lines)
        /\ \A i \in DOMAIN C20_Lines :
              LET l == C20_Lines[i]
                  o == UnmarshalLine(l).line
                  got == parsedLogs[i]
              IN  IF C20_Parseable(l)
                    THEN /\ got.timestamp = C20_StringAt(o, KeyTime)
                         /\ got.message = C20_StringAt(o, KeyMessage)
                         /\ got.error = C20_StringAt(o, KeyError)
                         /\ got.level = o[KeyLevel].v
                         /\ ~got.fields.isNil
                         /\ DOMAIN got.fields.entries = DOMAIN o \ {KeyTime, KeyMessage, KeyError, KeyLevel}
                         /\ \A k \in DOMAIN got.fields.entries : got.fields.entries[k] = o[k]
                    ELSE got = [message |-> l, timestamp |-> << >>, level |-> << >>,
                                error |-> << >>, fields |-> [isNil |-> TRUE, entries |-> << >>]]

\* A line with a supported level and further keys was parsed, then an
\* object with an unsupported level was kept as a message.
C20_Witness ==
    /\ logsDone
    /\ Len(parsedLogs) = 2
    /\ parsedLogs[1].level = LogLevelDebug
    /\ DOMAIN parsedLogs[1].fields.entries = {<<120>>, <<110>>}
    /\ parsedLogs[2].fields.isNil
    /\ parsedLogs[2].message = JSONObject(<<<<KeyLevel, Quote(<<119, 97, 114, 110>>)>>>>)

\* ---------------------------------------------------------------- C21
\* The place of a call in the calls unmarshalRunBundle made; 0 when the
\* call was not made.
C21_Place(name) ==
    IF \E i \in DOMAIN calls : calls[i] = name
      THEN CHOOSE i \in DOMAIN calls : calls[i] = name
      ELSE 0

\* C21: unmarshalRunBundle decodes the JSON payload only after it compared
\* the HMAC of the decoded bytes with the supplied signature and found
\* them equal; on a mismatch it returns the error and has not decoded the
\* payload.
C21_VerifyBeforeDecode ==
    step = "unmarshaled" =>
        /\ C21_Place("json.Unmarshal") > 0
           => (/\ 0 < C21_Place("hmac.Equal")
               /\ C21_Place("hmac.Equal") < C21_Place("json.Unmarshal")
               /\ generateHMAC(DecodeString(bundle).bytes, secretKey) = signature)
        /\ (/\ DecodeString(bundle).err = Nil
            /\ generateHMAC(DecodeString(bundle).bytes, secretKey) # signature)
           => (/\ unmarshalRet.err = ErrInvalidSignature
               /\ C21_Place("json.Unmarshal") = 0)

\* A bundle whose signature was changed has been refused.
C21_Witness ==
    /\ step = "unmarshaled"
    /\ tampered = "signature"
    /\ unmarshalRet.err = ErrInvalidSignature
    /\ calls = <<"DecodeString", "generateHMAC", "hmac.Equal">>

\* ---------------------------------------------------------------- C22
\* C22: when MakeExperiment refused the form, nothing of Controller.Run
\* has happened (no admission, waitQueueDepth and the permits untouched,
\* no process); when the pair fails decoding or verification, the store
\* was not called by /share or /export (no id drawn, no statement run, no
\* row written).
C22_RefusedHasNoEffect ==
    /\ (madeDone /\ made.err # Nil) =>
          \A p \in Runners :
              /\ pc[p] = "idle"
              /\ ~admitted[p]
              /\ ~executed[p]
              /\ proc[p] = "none"
              /\ stdin[p] = "none"
              /\ waitQueueDepth = 0
              /\ spawnSlots = MaxSlots
    /\ unmarshalRunBundle(bundle, signature, secretKey).err # Nil =>
          /\ rows = {}
          /\ uuids = 0
          /\ saveRets = {}
          /\ \A c \in Clients : hpc[c] = "idle" /\ local[c] = NoLocal

\* A form was refused, and a decodable bundle with a wrong signature was
\* refused by /share.
C22_Witness ==
    /\ madeDone
    /\ made.err # Nil
    /\ DecodeString(bundle).err = Nil
    /\ bundle # << >>
    /\ unmarshalRunBundle(bundle, signature, secretKey).err = ErrInvalidSignature
    /\ response.handler = "share"
    /\ response.status = 400

\* ---------------------------------------------------------------- C23
\* C23: when Exec has returned after the stdin pipe of the child was
\* created (on a failure of the start, of the write, of the close, of the
\* wait, or on success), the pipe has been closed or its close attempted.
C23_StdinClosed ==
    \A p \in Runners :
        (pc[p] = "returned" /\ executed[p] /\ fault[p] \notin {"marshal", "pipe"})
        => stdin[p] = "closed"

\* The write to stdin failed and Exec returned with the pipe closed.
C23_Witness ==
    \E p \in Runners :
        /\ pc[p] = "returned"
        /\ fault[p] = "write"
        /\ stdin[p] = "closed"

\* ---------------------------------------------------------------- C24
\* C24: when Exec has returned after the isolated process was started,
\* the process has been waited for; so it has been when Spawn has put the
\* permit back.
C24_NoOrphan ==
    \A p \in Runners :
        (pc[p] = "returned" /\ executed[p] /\ proc[p] # "none") => waited[p]

\* ---------------------------------------------------------------- C25
\* C25: in each execution the process is started once, at the beginning;
\* the payload is written after the start, stdin is closed after the
\* write, the process is waited for after the close; Traefik.Run reads
\* the Result of the command only when Spawn returned nil, after the wait.
C25_ExecOrder ==
    [][\A p \in Runners :
          /\ (proc'[p] = "running" /\ proc[p] # "running")
                => (proc[p] = "none" /\ pc[p] = "exec" /\ pc'[p] = "write")
          /\ (pc'[p] = "close" /\ pc[p] # "close")
                => (pc[p] = "write" /\ proc[p] # "none" /\ stdin[p] = "open")
          /\ (pc'[p] = "wait" /\ pc[p] # "wait")
                => (pc[p] = "close" /\ stdin'[p] = "closed")
          /\ (waited'[p] /\ ~waited[p])
                => (pc[p] = "wait" /\ stdin[p] = "closed" /\ proc[p] \in {"exited", "killed"})
          /\ (pc[p] = "returned" /\ pc'[p] = "done")
                => /\ (result'[p].res # ZeroResult \/ runRet'[p] # spawnRet[p])
                         => (spawnRet[p] = Nil /\ waited[p] /\ proc[p] \in {"exited", "killed"})
                   /\ spawnRet[p] # Nil
                         => (runRet'[p] = spawnRet[p] /\ result'[p].res = ZeroResult)
      ]_vars

\* Controller.Run returned the result of a process that was waited for.
C25_Witness ==
    \E p \in Runners :
        /\ pc[p] = "done"
        /\ waited[p]
        /\ result[p].err = Nil
        /\ result[p].res # ZeroResult

\* ---------------------------------------------------------------- C28
\* C28: no derived context exists while the call waits for its permit, so
\* the timeout does not run then and only the outer context ends the
\* wait, with its own error; while Exec runs, the derived context is done
\* as soon as the outer context is; when Exec has returned, the derived
\* context has been released.
C28_DerivedContext ==
    \A p \in Runners :
        /\ pc[p] \in {"idle", "select", "dec"} => tctx[p] = "none"
        /\ (pc[p] = "dec" /\ err[p] # Nil) => (ctx[p] # "live" /\ err[p] = <<ctx[p]>>)
        /\ (tctx[p] # "none" /\ ctx[p] # "live") => tctx[p] \in CtxErrs
        /\ (pc[p] = "returned" /\ executed[p]) => tctx[p] # "live"

\* The timeout elapsed while the process was running, the outer context
\* being live.
C28_Witness ==
    \E p \in Runners :
        /\ pc[p] = "wait"
        /\ ctx[p] = "live"
        /\ tctx[p] = "DeadlineExceeded"

\* ---------------------------------------------------------------- C26
\* C26: a step of /share/{id}, which is one call of Store.Get, changes
\* nothing in the table but the lastRetrievedAt of the row with that
\* public id, which becomes the time of the read; for an id that no row
\* has, the table is left as it was and the answer is the not-found one,
\* without experiment and result.
C26_GetFrame ==
    [][\A id \in KnownIDs :
          SharedExperiment(id) =>
              IF \E r \in rows : r.publicId = id
                THEN /\ response'.status = 200
                     /\ \A r \in rows : r.publicId # id => r \in rows'
                     /\ \A r \in rows :
                            r.publicId = id => [r EXCEPT !.lastRetrievedAt = <<now>>] \in rows'
                     /\ Cardinality(rows') = Cardinality(rows)
                ELSE /\ rows' = rows
                     /\ response'.status = 404
                     /\ response'.exp = ZeroExperiment
                     /\ response'.res = ZeroRunResult
      ]_vars

\* Two contents are stored; one was read at time 1, the other never was.
C26_Witness ==
    /\ response.handler = "shared"
    /\ response.status = 200
    /\ \E r1, r2 \in rows :
           /\ r1.publicId = response.id
           /\ r1.lastRetrievedAt = <<1>>
           /\ r2.publicId # response.id
           /\ r2.lastRetrievedAt = << >>

\* ---------------------------------------------------------------- C27
\* C27: with an error MakeExperiment returns the zero Experiment; without
\* an error the Experiment is within every bound: configuration of at most
\* 10240 bytes, method one of GET, POST, PUT, DELETE, PATCH, url non-empty
\* of at most 1024 bytes, body of at most 1024 bytes, at most 10 headers,
\* every name non-empty, of at most 100 bytes and made of token characters,
\* every value non-empty, of at most 200 bytes and made of value characters.
C27_NoPartialExperiment ==
    madeDone =>
        IF made.err # Nil
          THEN made.exp = ZeroExperiment
          ELSE LET r == made.exp.request
               IN  /\ Len(made.exp.dynamicConfig) <= 10240
                   /\ r.method \in {"GET", "POST", "PUT", "DELETE", "PATCH"}
                   /\ r.url # << >>
                   /\ Len(r.url) <= 1024
                   /\ Len(r.body) <= 1024
                   /\ Cardinality(DOMAIN r.headers) <= 10
                   /\ \A name \in DOMAIN r.headers :
                          /\ name # << >>
                          /\ Len(name) <= 100
                          /\ \A i \in DOMAIN name : IsTokenChar(name[i])
                          /\ Len(r.headers[name]) = 1
                          /\ LET value == r.headers[name][1]
                             IN  /\ value # << >>
                                 /\ Len(value) <= 200
                                 /\ \A i \in DOMAIN value : IsValueChar(value[i])

\* A form with a header name of exactly 100 bytes was accepted.
C27_Witness ==
    /\ madeDone
    /\ made.err = Nil
    /\ \E name \in DOMAIN made.exp.request.headers : Len(name) = 100

\* ---------------------------------------------------------------- C29
\* The call of p is no longer counted in waitQueueDepth.
C29_Decremented(p) ==
    /\ pc[p] \notin {"select", "dec"}
    /\ waitQueueDepth = Cardinality({q \in Callers : pc[q] \in {"select", "dec"}})
\* Every Exec that was called returns.
C29_ExecTerminates ==
    \A p \in Callers : WF_vars(\E e \in {Nil, <<"command failed">>, <<"Canceled">>,
                                        <<"DeadlineExceeded">>} : CommandExec(p, e))

\* C29: a caller waiting for a permit whose context is done leaves the
\* wait, with waitQueueDepth decremented, whether or not a permit is ever
\* released: it returns, or it was given a permit; and if every Exec that
\* is called returns, every call whose context is done while it waits, or
\* that obtained a permit, returns with waitQueueDepth decremented.
C29_SpawnReturns ==
    /\ \A p \in Callers :
          (pc[p] = "select" /\ ctx[p] # "live")
              ~> (C29_Decremented(p) /\ pc[p] \in {"returned", "exec"})
    /\ C29_ExecTerminates =>
          \A p \in Callers :
              ((pc[p] = "select" /\ ctx[p] # "live") \/ pc[p] \in {"dec", "exec"})
                  ~> (C29_Decremented(p) /\ pc[p] = "returned")

\* A caller waits with its context done while every permit is held.
C29_Witness ==
    \E p \in Callers :
        /\ pc[p] = "select"
        /\ ctx[p] # "live"
        /\ spawnSlots = 0

\* The handlers built from the first configuration the listener received.
C30_FirstHandlers == buildHandlers(Inject(delivered[1]))
\* No assignment to t.handlers has happened yet.
C30_NothingInstalled ==
    \/ Len(delivered) = 0
    \/ Len(delivered) = 1 /\ lpc \in {"lock", "install"}

\* C30: every ready function registered before Start is called once, when
\* the handlers built from the first configuration are installed, and has
\* been called once the first configuration is marked received; a later
\* configuration replaces the handlers and calls no ready function; a Send
\* before any handlers were installed returns the "no handler for
\* entrypoint" error and no response.
C30_ReadyOnce ==
    /\ [](\A f \in ReadyFuncs :
            /\ invoked[f] <= 1
            /\ invoked[f] = 1 =>
                  (/\ f \in Range(readyFuncs)
                   /\ Len(delivered) >= 1
                   /\ readySend[f] = Send(C30_FirstHandlers))
            /\ (firstConfigurationReceived /\ f \in Range(readyFuncs)) => invoked[f] = 1)
    /\ [](C30_NothingInstalled <=> handlers = NoHandlers)
    /\ [][(invoked' # invoked) =>
             (handlers = C30_FirstHandlers /\ handlers' = handlers /\ handlerMu)]_vars
    /\ [][firstConfigurationReceived =>
             (/\ invoked' = invoked
              /\ ListenerInstall =>
                    handlers' = buildHandlers(Inject(delivered[Len(delivered)])))]_vars
    /\ [][(SendRequest /\ C30_NothingInstalled) =>
             sendRet' = [res |-> Nil,
                         err |-> <<"no handler for entrypoint", httpEntrypoint>>]]_vars

\* A request sent before the first configuration got the error, every ready
\* function was then called once, and a later, different configuration has
\* replaced the handlers.
C30_Witness ==
    /\ Len(readyFuncs) = MaxReadyFuncs
    /\ \A f \in ReadyFuncs : invoked[f] = 1 /\ readySend[f].err = Nil
    /\ firstConfigurationReceived
    /\ Len(delivered) >= 2
    /\ lpc = "idle"
    /\ handlers # C30_FirstHandlers
    /\ sendRet.err # Nil

====
